---- MODULE Spec2Model ----
(***************************************************************************)
(* Model of the sqruff lexing pipeline (core/parser/lexer.rs) and of the   *)
(* parser driver (core/parser/parser.rs).                                  *)
(*                                                                         *)
(* Text is a sequence of one-character strings.  All characters of the     *)
(* alphabet are ASCII, so byte offsets and character offsets coincide.     *)
(* An offset i (0-based, as in Rust) names the position before s[i+1].     *)
(***************************************************************************)
EXTENDS Integers, Sequences, FiniteSets, TLC

\* ------------------------------------------------------------------------
\* Bounds
\* ------------------------------------------------------------------------
\* Longest input string that is enumerated exhaustively.
MaxLen == 3
\* Cap on the number of elements lex_match may accumulate (the code's Vec is
\* unbounded; a matcher that keeps matching the empty string grows it for ever).
MaxElems == 6
\* Longest token list handed to Parser::parse.
MaxTokens == 3
\* longest sliced_file of the templated files iter_segments is run on
MaxSlices == 3
\* longest lexed element iter_segments is run on
MaxElementLen == 2
\* most raw segments of a root that a ReflowSequence is built over
MaxRaws == 3
\* most method calls on a ReflowSequence after its construction
MaxOps == 2
\* most segments that RuleCV11 visits in one file
MaxVisits == 3

\* ------------------------------------------------------------------------
\* Text
\* ------------------------------------------------------------------------
Alphabet == {"f", ".", "#", ";", "/", "\n", "-", ">"}

\* Option<Range<usize>>
SomeRange(start, end) == [found |-> TRUE, start |-> start, end |-> end]
NoRange == [found |-> FALSE, start |-> 0, end |-> 0]

\* Option<&str>
SomeStr(text) == [found |-> TRUE, text |-> text]
NoStr == [found |-> FALSE, text |-> <<>>]

\* a value computed by a call that may panic instead
Returned(value) == [ok |-> TRUE, value |-> value]
Panicked == [ok |-> FALSE, value |-> <<>>]

\* &s[from..to] with 0-based half-open offsets
Slice(s, from, to) == SubSeq(s, from + 1, to)

\* &s[n..]
Drop(s, n) == SubSeq(s, n + 1, Len(s))

RECURSIVE StringsUpTo(_)
StringsUpTo(n) ==
    IF n = 0 THEN {<<>>}
    ELSE LET shorter == StringsUpTo(n - 1)
         IN  shorter \cup {Append(s, c) : s \in {t \in shorter : Len(t) = n - 1}, c \in Alphabet}

\* str::starts_with
StartsWith(s, t) == Len(t) <= Len(s) /\ SubSeq(s, 1, Len(t)) = t

\* str::find: offset of the first occurrence of t in s, or -1
StrFind(s, t) ==
    LET hits == {i \in 0..(Len(s) - Len(t)) : Slice(s, i, i + Len(t)) = t}
    IN  IF hits = {} THEN -1 ELSE CHOOSE i \in hits : \A j \in hits : i <= j

\* ------------------------------------------------------------------------
\* Regular expressions (the fragment the lexer's patterns use).
\* A regex is a sequence of alternatives tried in order; an alternative is a
\* sequence of atoms [cls, q]: q = "one" (one character of cls), "plus",
\* "star" (greedy repetition, backtracking), "not" (negative lookahead (?!c)).
\* ------------------------------------------------------------------------
One(cls)  == [cls |-> cls, q |-> "one"]
Plus(cls) == [cls |-> cls, q |-> "plus"]
Star(cls) == [cls |-> cls, q |-> "star"]
NotAhead(cls) == [cls |-> cls, q |-> "not"]

\* number of consecutive characters of cls starting at offset i
Run(cls, s, i) ==
    LET ends == {n \in 0..(Len(s) - i) : \A k \in 1..n : s[i + k] \in cls}
    IN  CHOOSE n \in ends : \A m \in ends : m <= n

RECURSIVE SeqEnd(_, _, _, _)
RECURSIVE GreedyEnd(_, _, _, _, _, _)
\* end offset of the preferred match of atoms[k..] at offset i, or -1
SeqEnd(atoms, k, s, i) ==
    IF k > Len(atoms) THEN i
    ELSE LET a == atoms[k]
             run == Run(a.cls, s, i)
         IN  CASE a.q = "one" -> IF run >= 1 THEN SeqEnd(atoms, k + 1, s, i + 1) ELSE -1
               [] a.q = "not" -> IF run >= 1 THEN -1 ELSE SeqEnd(atoms, k + 1, s, i)
               [] a.q = "plus" -> GreedyEnd(atoms, k, s, i, run, 1)
               [] a.q = "star" -> GreedyEnd(atoms, k, s, i, run, 0)

\* greedy repetition: try n repetitions, then n-1, ... down to min
GreedyEnd(atoms, k, s, i, n, min) ==
    IF n < min THEN -1
    ELSE LET e == SeqEnd(atoms, k + 1, s, i + n)
         IN  IF e >= 0 THEN e ELSE GreedyEnd(atoms, k, s, i, n - 1, min)

RECURSIVE AltEnd(_, _, _, _)
\* end offset of the first alternative (from alternative k on) matching at i
AltEnd(re, k, s, i) ==
    IF k > Len(re) THEN -1
    ELSE LET e == SeqEnd(re[k], 1, s, i)
         IN  IF e >= 0 THEN e ELSE AltEnd(re, k + 1, s, i)

\* Regex::find: the leftmost match
RegexFind(re, s) ==
    LET starts == {i \in 0..Len(s) : AltEnd(re, 1, s, i) >= 0}
    IN  IF starts = {} THEN NoRange
        ELSE LET i == CHOOSE x \in starts : \A y \in starts : x <= y
             IN  SomeRange(i, AltEnd(re, 1, s, i))

\* ------------------------------------------------------------------------
\* Pattern
\* ------------------------------------------------------------------------
\* Pattern::string
PatternString(name, template) ==
    [name |-> name, kind |-> "string", template |-> template, regex |-> <<>>]

\* Pattern::regex
PatternRegex(name, regex) ==
    [name |-> name, kind |-> "regex", template |-> <<>>, regex |-> regex]

\* Option<Pattern>::None
NoPattern == [name |-> "", kind |-> "none", template |-> <<>>, regex |-> <<>>]

\* Pattern::matches: the matched text if the pattern matches at offset 0
PatternMatches(p, forward_string) ==
    IF p.kind = "string"
    THEN IF StartsWith(forward_string, p.template) THEN SomeStr(p.template) ELSE NoStr
    ELSE LET matched == RegexFind(p.regex, forward_string)
         IN  IF matched.found /\ matched.start = 0
             THEN SomeStr(Slice(forward_string, 0, matched.end))
             ELSE NoStr

\* Pattern::search: the range of the first occurrence anywhere
PatternSearch(p, forward_string) ==
    IF p.kind = "string"
    THEN LET start == StrFind(forward_string, p.template)
         IN  IF start < 0 THEN NoRange
             ELSE SomeRange(start, start + Len(p.template))
    ELSE RegexFind(p.regex, forward_string)

\* ------------------------------------------------------------------------
\* Element, Matcher
\* ------------------------------------------------------------------------
\* Element::new; the constructor `value` always travels with the name of the
\* pattern it is taken from, so the name stands for both.
Element(name, text) == [name |-> name, text |-> text]

\* Matcher::new / Matcher::string / Matcher::regex, with the builder calls
\* subdivider() and post_subdivide() folded in
Matcher(pattern, subdivider, trim_post_subdivide) ==
    [pattern |-> pattern, subdivider |-> subdivider,
     trim_post_subdivide |-> trim_post_subdivide]

RECURSIVE TrimLoop(_, _, _, _)
\* the while loop and the trailing flush of Matcher::trim_match
TrimLoop(m, elem_buff, content_buff, str_buff) ==
    LET trim == m.trim_post_subdivide
        trim_pos == IF str_buff = <<>> THEN NoRange ELSE PatternSearch(trim, str_buff)
    IN  IF ~trim_pos.found
        THEN IF content_buff # <<>> \/ str_buff # <<>>
             THEN Append(elem_buff, Element(m.pattern.name, content_buff \o str_buff))
             ELSE elem_buff
        ELSE IF trim_pos.start = 0
        THEN TrimLoop(m, Append(elem_buff, Element(trim.name, Slice(str_buff, 0, trim_pos.end))),
                      content_buff, Drop(str_buff, trim_pos.end))
        ELSE IF trim_pos.end = Len(str_buff)
        THEN TrimLoop(m,
                      elem_buff \o
                        << Element(trim.name, content_buff \o Slice(str_buff, 0, trim_pos.start)),
                           Element(trim.name, Slice(str_buff, trim_pos.start, trim_pos.end)) >>,
                      <<>>, <<>>)
        ELSE TrimLoop(m, elem_buff, content_buff \o Slice(str_buff, 0, trim_pos.end),
                      Drop(str_buff, trim_pos.end))

\* Matcher::trim_match
TrimMatch(m, matched_str) ==
    IF m.trim_post_subdivide = NoPattern THEN <<>>
    ELSE TrimLoop(m, <<>>, <<>>, matched_str)

RECURSIVE SubdivideLoop(_, _, _)
\* the while loop of Matcher::subdivide
SubdivideLoop(m, elem_buff, str_buff) ==
    IF str_buff = <<>> THEN elem_buff
    ELSE LET div_pos == PatternSearch(m.subdivider, str_buff)
         IN  IF ~div_pos.found
             THEN elem_buff \o TrimMatch(m, str_buff)
             ELSE SubdivideLoop(m,
                      (elem_buff \o TrimMatch(m, Slice(str_buff, 0, div_pos.start)))
                        \o << Element(m.subdivider.name,
                                      Slice(str_buff, div_pos.start, div_pos.end)) >>,
                      Drop(str_buff, div_pos.end))

\* subdivide that does not push the divider elements
SubdivideWithoutDividers(m, matched) ==
    IF m.subdivider # NoPattern
    THEN SelectSeq(SubdivideLoop(m, <<>>, matched), LAMBDA e : e.name # m.subdivider.name)
    ELSE << Element(m.pattern.name, matched) >>

\* Matcher::subdivide
Subdivide(m, matched) ==
    IF m.subdivider # NoPattern
    THEN SubdivideLoop(m, <<>>, matched)
    ELSE << Element(m.pattern.name, matched) >>

\* Match
Match(forward_string, elements) ==
    [forward_string |-> forward_string, elements |-> elements]

\* matches that hands back its input as the remainder
MatchesNoAdvance(m, forward_string) ==
    LET matched == PatternMatches(m.pattern, forward_string)
    IN  IF matched.found
        THEN Match(forward_string, Subdivide(m, matched.text))
        ELSE Match(forward_string, <<>>)

\* Matcher::matches
Matches(m, forward_string) ==
    LET matched == PatternMatches(m.pattern, forward_string)
    IN  IF matched.found
        THEN Match(Drop(forward_string, Len(matched.text)), Subdivide(m, matched.text))
        ELSE Match(forward_string, <<>>)

\* ------------------------------------------------------------------------
\* Matchers the lexer is run with
\* ------------------------------------------------------------------------
\* \s restricted to the characters that can occur
Whitespace == {" ", "\t", "\n", "\r"}

\* Matcher::string("dot", ".")
Dot == Matcher(PatternString("dot", <<".">>), NoPattern, NoPattern)

\* Matcher::regex("test", "#[^#]*#")
TestHash == Matcher(PatternRegex("test", << <<One({"#"}), Star(Alphabet \ {"#"}), One({"#"})>> >>),
                    NoPattern, NoPattern)

\* Matcher::regex("test", r"f")
TestF == Matcher(PatternRegex("test", << <<One({"f"})>> >>), NoPattern, NoPattern)

\* Matcher::regex("test", r"[fas]*")
TestStar == Matcher(PatternRegex("test", << <<Star({"f", "a", "s"})>> >>), NoPattern, NoPattern)

\* r";\s+(?!\*)\/(?!\*)|\s+(?!\*)\/(?!\*)"
FunctionScriptTerminatorRegex ==
    << <<One({";"}), Plus(Whitespace), NotAhead({"*"}), One({"/"}), NotAhead({"*"})>>,
       <<Plus(Whitespace), NotAhead({"*"}), One({"/"}), NotAhead({"*"})>> >>

\* the matcher of test_parser_lexer_trim_post_subdivide
FunctionScriptTerminator ==
    Matcher(PatternRegex("function_script_terminator", FunctionScriptTerminatorRegex),
            PatternString("semicolon", <<";">>),
            PatternRegex("newline", << <<Plus({"\n"})>> >>))

\* the same pattern and subdivider with no post_subdivide() call
FunctionScriptTerminatorNoTrim ==
    Matcher(PatternRegex("function_script_terminator", FunctionScriptTerminatorRegex),
            PatternString("semicolon", <<";">>),
            NoPattern)

\* the "#[^#]*#" matcher with the subdivider and trim pattern of the
\* function_script_terminator test, so that dividers occur inside the match
TestHashSubdivided ==
    Matcher(PatternRegex("test", << <<One({"#"}), Star(Alphabet \ {"#"}), One({"#"})>> >>),
            PatternString("semicolon", <<";">>),
            PatternRegex("newline", << <<Plus({"\n"})>> >>))

\* the "#[^#]*#" matcher with the same subdivider and a literal trim pattern
\* (Pattern::string), which matches again right after one of its matches
TestHashTrimLiteral ==
    Matcher(PatternRegex("test", << <<One({"#"}), Star(Alphabet \ {"#"}), One({"#"})>> >>),
            PatternString("semicolon", <<";">>),
            PatternString("newline", <<"\n">>))

\* clickhouse: Matcher::string("lambda", "->")
Lambda == Matcher(PatternString("lambda", <<"-", ">">>), NoPattern, NoPattern)

\* sparksql: Matcher::string("end_hint", "->")
EndHint == Matcher(PatternString("end_hint", <<"-", ">">>), NoPattern, NoPattern)

\* sparksql: Matcher::regex("inline_comment", r"(--)[^\n]*")
InlineComment ==
    Matcher(PatternRegex("inline_comment",
                         << <<One({"-"}), One({"-"}), Star(Alphabet \ {"\n"})>> >>),
            NoPattern, NoPattern)

\* Lexer::new: Matcher::regex("<unlexable>", r"[^\t\n.]*")
LastResortLexer ==
    Matcher(PatternRegex("<unlexable>", << <<Star(Alphabet \ {"\t", "\n", "."})>> >>),
            NoPattern, NoPattern)

\* the ordered matcher lists (dialect.lexer_matchers()) the lexer is run with
MatcherLists ==
    { <<Dot, TestHash>>,
      <<TestHash, Dot>>,
      <<FunctionScriptTerminator>>,
      <<FunctionScriptTerminator, Dot>>,
      <<FunctionScriptTerminatorNoTrim, Dot>>,
      <<TestHashSubdivided, Dot>>,
      <<TestHashTrimLiteral, Dot>>,
      <<TestF, TestStar>>,
      <<TestStar, TestF>>,
      <<Dot, TestStar>>,
      <<Lambda, EndHint>>,
      <<EndHint, Lambda>>,
      <<InlineComment, Lambda, Dot>>,
      <<Lambda, InlineComment, TestF>> }

\* inputs of the unit tests, longer than MaxLen
TestInputs ==
    { <<".", ".", "#", ".", ".", "#", ".", ".", "#">>,
      <<";", "\n", "/", "\n">>,
      <<"#", ";", ";", "\n", "f", "#">>,
      <<"#", "\n", ";", "#">>,
      <<"#", "\n", "\n", "#">> }

Inputs == StringsUpTo(MaxLen) \cup TestInputs

\* ------------------------------------------------------------------------
\* TemplatedFile, TemplateElement, segments
\* ------------------------------------------------------------------------
\* Range<usize>
Range(start, end) == [start |-> start, end |-> end]

\* offset_slice(start, offset)
offset_slice(start, offset) == Range(start, start + offset)

\* is_zero_slice
is_zero_slice(s) == s.start = s.end

\* TemplatedFileSlice
TemplatedFileSlice(slice_type, source_slice, templated_slice) ==
    [slice_type |-> slice_type, source_slice |-> source_slice,
     templated_slice |-> templated_slice]

\* TemplatedFile::from_string: the whole string is one literal slice
FromString(s) ==
    [templated_str |-> s,
     sliced_file |-> << TemplatedFileSlice("literal", Range(0, Len(s)), Range(0, Len(s))) >>]

\* TemplateElement::from_element
FromElement(element, template_slice) ==
    [raw |-> element.text, template_slice |-> template_slice,
     matcher |-> [name |-> element.name]]

\* PositionMarker::new
PositionMarker(source_slice, templated_slice) ==
    [source_slice |-> source_slice, templated_slice |-> templated_slice]

\* PositionMarker::from_point
FromPoint(source_point, templated_point) ==
    PositionMarker(Range(source_point, source_point), Range(templated_point, templated_point))

\* PositionMarker::end_point_marker
EndPointMarker(pos_marker) ==
    FromPoint(pos_marker.source_slice.end, pos_marker.templated_slice.end)

\* TemplateElement::to_segment: the matcher's constructor applied to the
\* (sub)slice of the raw text; the segment's kind is the matcher's name
ToSegment(element, pos_marker, subslice) ==
    [kind |-> element.matcher.name,
     raw |-> Slice(element.raw, subslice.start, subslice.end),
     pos_marker |-> pos_marker]

\* EndOfFile::create
EndOfFile(pos_marker) == [kind |-> "end_of_file", raw |-> <<>>, pos_marker |-> pos_marker]

RECURSIVE MapLoop(_, _, _, _, _)
\* the for loop of Lexer::map_template_slices
MapLoop(elements, k, idx, templated_buff, templated_string) ==
    IF k > Len(elements) THEN Returned(templated_buff)
    ELSE LET element == elements[k]
             template_slice == offset_slice(idx, Len(element.text))
         IN  IF \/ template_slice.end > Len(templated_string)
                \/ Slice(templated_string, template_slice.start, template_slice.end)
                     # element.text
             THEN Panicked
             ELSE MapLoop(elements, k + 1, idx + Len(element.text),
                          Append(templated_buff, FromElement(element, template_slice)),
                          templated_string)

\* Lexer::map_template_slices
MapTemplateSlices(elements, template) == MapLoop(elements, 1, 0, <<>>, template.templated_str)

\* Option<usize>::None
NoIdx == -1

\* outcome of the walk of one element over the slices
Walk(status, result) == [status |-> status, result |-> result]

RECURSIVE SliceLoop(_, _, _, _, _)
\* the inner for loop of iter_segments for one element, from slice tfs_idx
\* (0-based) on; consumed_element_length is the constant 0 of the code
SliceLoop(element, slices, tfs_idx, stashed_source_idx, result) ==
    IF tfs_idx >= Len(slices) THEN Walk("end", result)
    ELSE LET tfs == slices[tfs_idx + 1]
             consumed_element_length == 0
             tfs_offset == tfs.source_slice.start - tfs.templated_slice.start
             next(stash, res) == SliceLoop(element, slices, tfs_idx + 1, stash, res)
         IN  IF is_zero_slice(tfs.templated_slice)
             THEN next(stashed_source_idx, result)
             ELSE IF tfs.slice_type = "literal"
             THEN IF tfs_offset < 0 THEN Walk("panic", result)
                  ELSE IF element.template_slice.end <= tfs.templated_slice.end
                  THEN LET slice_start ==
                               IF stashed_source_idx # NoIdx THEN stashed_source_idx
                               ELSE element.template_slice.start + consumed_element_length
                                      + tfs_offset
                       IN  Walk("break",
                                Append(result,
                                       ToSegment(element,
                                                 PositionMarker(
                                                     Range(slice_start,
                                                           element.template_slice.end + tfs_offset),
                                                     element.template_slice),
                                                 Range(consumed_element_length, Len(element.raw)))))
                  ELSE IF element.template_slice.start = tfs.templated_slice.end
                  THEN next(stashed_source_idx, result)
                  ELSE IF element.matcher.name = "whitespace"
                  THEN LET incremental_length ==
                               tfs.templated_slice.end - element.template_slice.start
                           subslice == offset_slice(consumed_element_length, incremental_length)
                       IN  IF \/ stashed_source_idx # NoIdx
                              \/ incremental_length < 0
                              \/ subslice.end > Len(element.raw)
                           THEN Walk("panic", result)
                           ELSE next(stashed_source_idx,
                                     Append(result,
                                            ToSegment(element,
                                                      PositionMarker(
                                                          Range(element.template_slice.start
                                                                  + consumed_element_length
                                                                  + tfs_offset,
                                                                tfs.templated_slice.end + tfs_offset),
                                                          element.template_slice),
                                                      subslice)))
                  ELSE IF stashed_source_idx = NoIdx
                  THEN next(element.template_slice.start + tfs_idx, result)
                  ELSE next(stashed_source_idx, result)
             ELSE IF tfs.slice_type \in {"templated", "block_start"}
             THEN Walk("panic", result)
             ELSE next(stashed_source_idx, result)

RECURSIVE ElementLoop(_, _, _, _)
\* the outer for loop of iter_segments; the outer tfs_idx is never reassigned
\* (the inner binding shadows it), so every element starts at slice 0
ElementLoop(lexed_elements, k, slices, result) ==
    IF k > Len(lexed_elements) THEN Returned(result)
    ELSE LET tfs_idx == 0
             w == SliceLoop(lexed_elements[k], slices, tfs_idx, NoIdx, result)
         IN  IF w.status = "panic" THEN Panicked
             ELSE ElementLoop(lexed_elements, k + 1, slices, w.result)

\* iter_segments
IterSegments(lexed_elements, templated_file) ==
    ElementLoop(lexed_elements, 1, templated_file.sliced_file, <<>>)

\* elements_to_segments that puts the end of file at the document start
ElementsToSegmentsAtStart(elements, templated_file) ==
    LET iter == IterSegments(elements, templated_file)
    IN  IF ~iter.ok THEN Panicked
        ELSE Returned(Append(iter.value, EndOfFile(FromPoint(0, 0))))

\* Lexer::elements_to_segments
ElementsToSegments(elements, templated_file) ==
    LET iter == IterSegments(elements, templated_file)
        segs == iter.value
    IN  IF ~iter.ok THEN Panicked
        ELSE LET position_maker ==
                     IF segs # <<>> THEN EndPointMarker(segs[Len(segs)].pos_marker)
                     ELSE FromPoint(0, 0)
             IN  Returned(Append(segs, EndOfFile(position_maker)))

\* ------------------------------------------------------------------------
\* Lexer::lex as a state machine
\* ------------------------------------------------------------------------
VARIABLES
    raw,              \* the string handed to lex (StringOrTemplate::String)
    lexer_matchers,   \* config.get_dialect().lexer_matchers()
    template,         \* the TemplatedFile
    pc,               \* position in lex / lex_match
    str_buff,         \* lex: the text still to lex
    element_buffer,   \* lex: elements collected so far
    res,              \* lex: result of lex_match
    resort_res,       \* lex: result of the last-resort matcher
    forward_string,   \* lex_match: remaining text
    elem_buff,        \* lex_match: elements collected by this call
    matcher_idx,      \* lex_match: position of the for loop in lexer_matchers
    match_result,     \* lex_match: result of the matcher tried last
    templated_buffer, \* lex: result of map_template_slices
    segments,         \* lex: returned segments
    lex_errors,       \* lex: returned errors
    tokens,           \* Parser::parse: the segments argument
    f_name,           \* Parser::parse: argument
    parse_statistics, \* Parser::parse: argument
    parse_pc,         \* Parser::parse: position
    parse_cx_built,   \* Parser::parse: ParseContext::from_config was called
    root_parsed,      \* Parser::parse: root_segment.root_parse was called
    parse_result,     \* Parser::parse: the returned value
    dialect_fn,       \* the dialect function being run
    dialect_pc,       \* dialect function: position in its list of statements
    dialect,          \* dialect function: the Dialect under construction
    dialect_status,   \* dialect function: running, returned or panicked
    lexed_elements,   \* iter_segments: argument
    templated_file,   \* iter_segments: argument
    iter_pc,          \* iter_segments: position
    element_idx,      \* iter_segments: position of the outer for loop in lexed_elements
    tfs_idx,          \* iter_segments: the tfs_idx of the inner for loop
    stashed_source_idx, \* iter_segments: NoIdx for None
    result,           \* iter_segments: the segments pushed so far
    root_raws,        \* ReflowSequence: root_segment.get_raw_segments()
    reflow_elements,  \* ReflowSequence: elements
    lint_results,     \* ReflowSequence: lint_results
    reflow_pc,        \* ReflowSequence: idle, start, ready or panic
    reflow_ops,       \* ReflowSequence: the names of the methods called so far, in order
    last_call,        \* ReflowSequence: the last method called, with its arguments
    raw_segments,     \* ReflowSequence: argument of the last elements_from_raw_segments
    pre_idx,          \* from_around_target: start of the window
    post_idx,         \* from_around_target: end of the window
    pass_results,     \* the lint results of the last rebreak, reindent or line-length pass
    preferred_type_casting_style, \* RuleCV11: configured style
    cv_segment,       \* RuleCV11::eval: context.segment of the last call
    prior_type_casting_style, \* RuleCV11: the TypeCastingStyle kept in the context
    previous_skipped, \* RuleCV11: PreviousSkipped is kept in the context
    cv_results,       \* RuleCV11::eval: the Vec<LintResult> of the last call
    cv_visits         \* RuleCV11: number of segments visited

lexer_vars == <<raw, lexer_matchers, template, pc, str_buff, element_buffer, res, resort_res,
                forward_string, elem_buff, matcher_idx, match_result, templated_buffer,
                segments, lex_errors>>

parser_vars == <<tokens, f_name, parse_statistics, parse_pc, parse_cx_built, root_parsed,
                 parse_result>>

dialect_vars == <<dialect_fn, dialect_pc, dialect, dialect_status>>

iter_vars == <<lexed_elements, templated_file, iter_pc, element_idx, tfs_idx,
               stashed_source_idx, result>>

reflow_vars == <<root_raws, reflow_elements, lint_results, reflow_pc, reflow_ops, last_call,
                 raw_segments, pre_idx, post_idx, pass_results>>

cv_vars == <<preferred_type_casting_style, cv_segment, prior_type_casting_style,
             previous_skipped, cv_results, cv_visits>>

vars == <<lexer_vars, parser_vars, dialect_vars, iter_vars, reflow_vars, cv_vars>>

non_lexer_vars == <<parser_vars, dialect_vars, iter_vars, reflow_vars, cv_vars>>

non_parser_vars == <<lexer_vars, dialect_vars, iter_vars, reflow_vars, cv_vars>>

non_dialect_vars == <<lexer_vars, parser_vars, iter_vars, reflow_vars, cv_vars>>

non_iter_vars == <<lexer_vars, parser_vars, dialect_vars, reflow_vars, cv_vars>>

non_reflow_vars == <<lexer_vars, parser_vars, dialect_vars, iter_vars, cv_vars>>

non_cv_vars == <<lexer_vars, parser_vars, dialect_vars, iter_vars, reflow_vars>>

NoMatch == Match(<<>>, <<>>)

\* Lexer::lex, lines 321-335
LexInit ==
    /\ raw \in Inputs
    /\ lexer_matchers \in MatcherLists
    /\ template = FromString(raw)
    /\ pc = "lex"
    /\ str_buff = raw
    /\ element_buffer = <<>>
    /\ res = NoMatch
    /\ resort_res = NoMatch
    /\ forward_string = <<>>
    /\ elem_buff = <<>>
    /\ matcher_idx = 0
    /\ match_result = NoMatch
    /\ templated_buffer = <<>>
    /\ segments = <<>>
    /\ lex_errors = <<>>

\* the lexer is not running
LexIdle ==
    /\ raw = <<>>
    /\ lexer_matchers = <<>>
    /\ template = FromString(<<>>)
    /\ pc = "idle"
    /\ str_buff = <<>>
    /\ element_buffer = <<>>
    /\ res = NoMatch
    /\ resort_res = NoMatch
    /\ forward_string = <<>>
    /\ elem_buff = <<>>
    /\ matcher_idx = 0
    /\ match_result = NoMatch
    /\ templated_buffer = <<>>
    /\ segments = <<>>
    /\ lex_errors = <<>>

\* the list walked from its end
MatcherAtReversed(matchers, i) == matchers[Len(matchers) + 1 - i]

\* `for matcher in lexer_matchers`: the matcher of the i-th turn
MatcherAt(matchers, i) == matchers[i]

\* lex calls lex_match(str_buff, lexer_matchers)
CallLexMatch ==
    /\ pc = "lex"
    /\ forward_string' = str_buff
    /\ elem_buff' = <<>>
    /\ pc' = "lex_match"
    /\ UNCHANGED <<raw, lexer_matchers, template, str_buff, element_buffer, res, resort_res,
                   matcher_idx, match_result, templated_buffer, segments, lex_errors>>
    /\ UNCHANGED non_lexer_vars

\* lex_match: head of the 'main loop
LexMatchMain ==
    /\ pc = "lex_match"
    /\ IF forward_string = <<>>
       THEN /\ res' = Match(forward_string, elem_buff)
            /\ pc' = "lex_ret"
            /\ UNCHANGED matcher_idx
       ELSE /\ matcher_idx' = 1
            /\ pc' = "for"
            /\ UNCHANGED res
    /\ UNCHANGED <<raw, lexer_matchers, template, str_buff, element_buffer, resort_res,
                   forward_string, elem_buff, match_result, templated_buffer, segments,
                   lex_errors>>
    /\ UNCHANGED non_lexer_vars

\* lex_match: one turn of `for matcher in lexer_matchers`, or the return
\* after the loop
LexMatchFor ==
    /\ pc = "for"
    /\ IF matcher_idx > Len(lexer_matchers)
       THEN /\ res' = Match(forward_string, elem_buff)
            /\ pc' = "lex_ret"
            /\ UNCHANGED <<forward_string, elem_buff, matcher_idx, match_result>>
       ELSE /\ match_result' = Matches(MatcherAt(lexer_matchers, matcher_idx), forward_string)
            /\ IF match_result'.elements # <<>>
               THEN /\ Len(elem_buff) < MaxElems
                    /\ elem_buff' = elem_buff \o match_result'.elements
                    /\ forward_string' = match_result'.forward_string
                    /\ pc' = "lex_match"
                    /\ UNCHANGED matcher_idx
               ELSE /\ matcher_idx' = matcher_idx + 1
                    /\ UNCHANGED <<forward_string, elem_buff, pc>>
            /\ UNCHANGED res
    /\ UNCHANGED <<raw, lexer_matchers, template, str_buff, element_buffer, resort_res,
                   templated_buffer, segments, lex_errors>>
    /\ UNCHANGED non_lexer_vars

\* lex: lines 339-352, the rest of one turn of the outer loop
LexResort ==
    /\ pc = "lex_ret"
    /\ IF res.forward_string = <<>>
       THEN /\ element_buffer' = element_buffer \o res.elements
            /\ pc' = "map"
            /\ UNCHANGED <<str_buff, resort_res>>
       ELSE /\ resort_res' = Matches(LastResortLexer, str_buff)
            /\ IF resort_res'.elements # <<>>
               THEN /\ element_buffer' = element_buffer \o res.elements
                    /\ pc' = "map"
                    /\ UNCHANGED str_buff
               ELSE /\ str_buff' = resort_res'.forward_string
                    /\ element_buffer' = (element_buffer \o res.elements) \o resort_res'.elements
                    /\ pc' = "lex"
    /\ UNCHANGED <<raw, lexer_matchers, template, res, forward_string, elem_buff, matcher_idx,
                   match_result, templated_buffer, segments, lex_errors>>
    /\ UNCHANGED non_lexer_vars

\* lex: line 357
LexMapTemplateSlices ==
    /\ pc = "map"
    /\ LET mapped == MapTemplateSlices(element_buffer, template)
       IN  IF ~mapped.ok
           THEN pc' = "panic" /\ UNCHANGED templated_buffer
           ELSE pc' = "segments" /\ templated_buffer' = mapped.value
    /\ UNCHANGED <<raw, lexer_matchers, template, str_buff, element_buffer, res, resort_res,
                   forward_string, elem_buff, matcher_idx, match_result, segments, lex_errors>>
    /\ UNCHANGED non_lexer_vars

\* lex: lines 359-361
LexElementsToSegments ==
    /\ pc = "segments"
    /\ LET segs == ElementsToSegments(templated_buffer, template)
       IN  IF ~segs.ok
           THEN pc' = "panic" /\ UNCHANGED <<segments, lex_errors>>
           ELSE /\ pc' = "done"
                /\ segments' = segs.value
                /\ lex_errors' = <<>>
    /\ UNCHANGED <<raw, lexer_matchers, template, str_buff, element_buffer, res, resort_res,
                   forward_string, elem_buff, matcher_idx, match_result, templated_buffer>>
    /\ UNCHANGED non_lexer_vars

\* ------------------------------------------------------------------------
\* Parser::parse as a state machine
\* ------------------------------------------------------------------------
\* kinds of the raw segments handed to the parser
TokenKinds == {"word", "whitespace", "end_of_file"}

RECURSIVE TokenListsUpTo(_)
TokenListsUpTo(n) ==
    IF n = 0 THEN {<<>>}
    ELSE LET shorter == TokenListsUpTo(n - 1)
         IN  shorter \cup {Append(t, k) : t \in {u \in shorter : Len(u) = n - 1}, k \in TokenKinds}

\* Result<Option<ErasedSegment>, SQLParseError>, "pending" before the return
\* and "panic" for an abort; root is the list of leaves of the returned tree
ParseResult(tag, root) == [tag |-> tag, root |-> root]

\* FileSegment::root_parse: the trees the root grammar may hand back for the
\* tokens (complete, one token dropped, one token duplicated), or a parse error
RootParse(segs) ==
    {ParseResult("Ok", segs), ParseResult("Ok", Tail(segs)),
     ParseResult("Ok", <<segs[1]>> \o segs), ParseResult("Err", <<>>)}

\* check_still_complete: the leaves of the tree are the tokens, in order
CheckStillComplete(segs, root) == root = segs

ParserInit ==
    /\ tokens \in TokenListsUpTo(MaxTokens)
    /\ f_name \in {"None", "query.sql"}
    /\ parse_statistics \in BOOLEAN
    /\ parse_pc = "parse"
    /\ parse_cx_built = FALSE
    /\ root_parsed = FALSE
    /\ parse_result = ParseResult("pending", <<>>)

\* the parser is not running
ParserIdle ==
    /\ tokens = <<>>
    /\ f_name = "None"
    /\ parse_statistics = FALSE
    /\ parse_pc = "idle"
    /\ parse_cx_built = FALSE
    /\ root_parsed = FALSE
    /\ parse_result = ParseResult("pending", <<>>)

\* parse that builds the parse context before the empty check
ParseEntryContextFirst ==
    /\ parse_pc = "parse"
    /\ parse_cx_built' = TRUE
    /\ IF tokens = <<>>
       THEN /\ parse_result' = ParseResult("OkNone", <<>>)
            /\ parse_pc' = "done"
       ELSE /\ parse_pc' = "root_parse"
            /\ UNCHANGED parse_result
    /\ UNCHANGED <<tokens, f_name, parse_statistics, root_parsed>>
    /\ UNCHANGED non_parser_vars

\* Parser::parse, lines 29-39: the empty check and the parse context
ParseEntry ==
    /\ parse_pc = "parse"
    /\ IF tokens = <<>>
       THEN /\ parse_result' = ParseResult("OkNone", <<>>)
            /\ parse_pc' = "done"
            /\ UNCHANGED parse_cx_built
       ELSE /\ parse_cx_built' = TRUE
            /\ parse_pc' = "root_parse"
            /\ UNCHANGED parse_result
    /\ UNCHANGED <<tokens, f_name, parse_statistics, root_parsed>>
    /\ UNCHANGED non_parser_vars

\* Parser::parse without the completeness check of line 55
ParseRootUnchecked ==
    /\ parse_pc = "root_parse"
    /\ root_parsed' = TRUE
    /\ \E r \in RootParse(tokens) :
         parse_result' =
           IF r.tag = "Err" THEN r
           ELSE IF parse_statistics THEN ParseResult("panic", <<>>)
           ELSE ParseResult("OkSome", r.root)
    /\ parse_pc' = "done"
    /\ UNCHANGED <<tokens, f_name, parse_statistics, parse_cx_built>>
    /\ UNCHANGED non_parser_vars

\* Parser::parse, lines 43-61: root_parse, the completeness check and the
\* return
ParseRoot ==
    /\ parse_pc = "root_parse"
    /\ root_parsed' = TRUE
    /\ \E r \in RootParse(tokens) :
         parse_result' =
           IF r.tag = "Err" THEN r
           ELSE IF ~CheckStillComplete(tokens, r.root) THEN ParseResult("panic", <<>>)
           ELSE IF parse_statistics THEN ParseResult("panic", <<>>)
           ELSE ParseResult("OkSome", r.root)
    /\ parse_pc' = "done"
    /\ UNCHANGED <<tokens, f_name, parse_statistics, parse_cx_built>>
    /\ UNCHANGED non_parser_vars

\* ------------------------------------------------------------------------
\* Dialect: the grammar registry and the dialect functions
\* ------------------------------------------------------------------------
\* one statement of a dialect function on the Dialect it builds: the method
\* called, the line of the call, the names it is called with (grammar names,
\* lexer matcher names or a set name) and the anchor or the method applied to
\* the handle returned by sets_mut
Stmt(op, line, names, arg) == [op |-> op, line |-> line, names |-> names, arg |-> arg]

\* clickhouse_dialect(): the statements on the Dialect, in program order
clickhouse_dialect ==
    <<
      Stmt("name", 26, <<>>, ""),
      Stmt("sets_mut", 27, <<"unreserved_keywords">>, "extend"),
      Stmt("replace_grammar", 29, <<"FromExpressionElementSegment">>, ""),
      Stmt("replace_grammar", 56, <<"JoinClauseSegment">>, ""),
      Stmt("add", 86, <<"SingleIdentifierGrammar", "QuotedLiteralSegment">>, ""),
      Stmt("insert_lexer_matchers", 138, <<"lambda">>, "newline"),
      Stmt("add", 149, <<"JoinTypeKeywords", "LambdaFunctionSegment">>, ""),
      Stmt("add", 254, <<"BinaryOperatorGrammar">>, ""),
      Stmt("add", 268, <<"JoinLikeClauseGrammar">>, ""),
      Stmt("replace_grammar", 279, <<"BracketedArguments">>, ""),
      Stmt("add", 291, <<"ArrayJoinClauseSegment">>, ""),
      Stmt("replace_grammar", 309, <<"CTEDefinitionSegment">>, ""),
      Stmt("replace_grammar", 328, <<"AliasExpressionSegment">>, ""),
      Stmt("add", 353, <<"TableEngineFunctionSegment", "OnClusterClauseSegment", "TableEngineSegment",
           "DatabaseEngineFunctionSegment", "DatabaseEngineSegment", "ColumnTTLSegment",
           "TableTTLSegment", "ColumnConstraintSegment">>, ""),
      Stmt("replace_grammar", 626, <<"CreateDatabaseStatementSegment">>, ""),
      Stmt("replace_grammar", 675, <<"CreateTableStatementSegment">>, ""),
      Stmt("add", 729, <<"CreateMaterializedViewStatementSegment">>, ""),
      Stmt("replace_grammar", 761, <<"DropTableStatementSegment">>, ""),
      Stmt("replace_grammar", 775, <<"DropDatabaseStatementSegment">>, ""),
      Stmt("add", 788, <<"DropDictionaryStatementSegment">>, ""),
      Stmt("replace_grammar", 805, <<"DropUserStatementSegment">>, ""),
      Stmt("replace_grammar", 817, <<"DropRoleStatementSegment">>, ""),
      Stmt("add", 829, <<"DropQuotaStatementSegment", "DropSettingProfileStatementSegment">>, ""),
      Stmt("replace_grammar", 866, <<"DropViewStatementSegment">>, ""),
      Stmt("replace_grammar", 879, <<"DropFunctionStatementSegment">>, ""),
      Stmt("add", 891, <<"SystemMergesSegment", "SystemTTLMergesSegment", "SystemMovesSegment",
           "SystemReplicaSegment", "SystemFilesystemSegment", "SystemReplicatedSegment",
           "SystemReplicationSegment", "SystemFetchesSegment", "SystemDistributedSegment",
           "SystemModelSegment", "SystemFileSegment", "SystemUnfreezeSegment",
           "SystemStatementSegment">>, ""),
      Stmt("replace_grammar", 1156, <<"StatementSegment">>, ""),
      Stmt("expand", 1174, <<>>, ""),
      Stmt("return", 1175, <<>>, "")
    >>

\* sqlite::raw_dialect(): the statements on the Dialect, in program order
sqlite_raw_dialect ==
    <<
      Stmt("name", 26, <<>>, ""),
      Stmt("sets_mut", 28, <<"reserved_keywords">>, "clear"),
      Stmt("sets_mut", 29, <<"reserved_keywords">>, "extend"),
      Stmt("sets_mut", 30, <<"unreserved_keywords">>, "clear"),
      Stmt("sets_mut", 31, <<"unreserved_keywords">>, "extend"),
      Stmt("add", 33, <<"BooleanBinaryOperatorGrammar", "PrimaryKeyGrammar", "TemporaryTransientGrammar",
           "DateTimeLiteralGrammar", "BaseExpressionElementGrammar", "AutoIncrementGrammar",
           "CommentClauseSegment", "IntervalExpressionSegment", "TimeZoneGrammar",
           "FetchClauseSegment", "TrimParametersGrammar", "LikeGrammar",
           "OverlapsClauseSegment", "MLTableExpressionSegment", "MergeIntoLiteralGrammar",
           "SamplingExpressionSegment", "OrderByClauseTerminators",
           "WhereClauseTerminatorGrammar", "FromClauseTerminatorGrammar",
           "GroupByClauseTerminatorGrammar", "PostFunctionGrammar",
           "IgnoreRespectNullsGrammar", "SelectClauseTerminatorGrammar",
           "FunctionContentsGrammar", "Expression_A_Unary_Operator_Grammar", "IsClauseGrammar">>, ""),
      Stmt("add", 251, <<"SetOperatorSegment">>, ""),
      Stmt("replace_grammar", 283, <<"DatatypeSegment">>, ""),
      Stmt("add", 305, <<"TableEndClauseSegment">>, ""),
      Stmt("replace_grammar", 319, <<"ValuesClauseSegment">>, ""),
      Stmt("add", 335, <<"IndexColumnDefinitionSegment", "InsertStatementSegment">>, ""),
      Stmt("grammar", 397, <<"ColumnConstraintSegment">>, ""),
      Stmt("replace_grammar", 422, <<"ColumnConstraintSegment">>, ""),
      Stmt("replace_grammar", 424, <<"TableConstraintSegment">>, ""),
      Stmt("replace_grammar", 471, <<"TransactionStatementSegment">>, ""),
      Stmt("grammar", 499, <<"ObjectReferenceSegment">>, ""),
      Stmt("add", 495, <<"PragmaReferenceSegment">>, ""),
      Stmt("add", 505, <<"PragmaStatementSegment">>, ""),
      Stmt("replace_grammar", 554, <<"CreateTriggerStatementSegment">>, ""),
      Stmt("add", 622, <<"UnorderedSelectStatementSegment">>, ""),
      Stmt("grammar", 646, <<"UnorderedSelectStatementSegment">>, ""),
      Stmt("add", 642, <<"SelectStatementSegment">>, ""),
      Stmt("replace_grammar", 668, <<"CreateIndexStatementSegment">>, ""),
      Stmt("replace_grammar", 686, <<"StatementSegment">>, ""),
      Stmt("return", 710, <<>>, "")
    >>

\* sqlite::dialect() that returns raw_dialect() as it is
sqlite_dialect_unexpanded ==
    SubSeq(sqlite_raw_dialect, 1, Len(sqlite_raw_dialect) - 1)
        \o <<Stmt("return", 20, <<>>, "")>>

\* sqlite::dialect(): raw_dialect() and then config(|dialect| dialect.expand())
sqlite_dialect ==
    SubSeq(sqlite_raw_dialect, 1, Len(sqlite_raw_dialect) - 1)
        \o <<Stmt("expand", 20, <<>>, ""), Stmt("return", 20, <<>>, "")>>

\* sparksql_dialect(): the statements on the Dialect, in program order
sparksql_dialect ==
    <<
      Stmt("name", 29, <<>>, ""),
      Stmt("patch_lexer_matchers", 31, <<"inline_comment", "equals", "back_quote", "numeric_literal">>, ""),
      Stmt("insert_lexer_matchers", 62, <<"bytes_single_quote", "bytes_double_quote">>, "single_quote"),
      Stmt("insert_lexer_matchers", 88, <<"bytes_single_quote", "bytes_double_quote">>, "single_quote"),
      Stmt("insert_lexer_matchers", 114, <<"at_sign_literal">>, "word"),
      Stmt("insert_lexer_matchers", 125, <<"file_literal">>, "newline"),
      Stmt("sets_mut", 138, <<"bare_functions">>, "clear"),
      Stmt("sets_mut", 139, <<"bare_functions">>, "extend"),
      Stmt("sets_mut", 145, <<"datetime_units">>, "clear"),
      Stmt("sets_mut", 146, <<"datetime_units">>, "extend"),
      Stmt("sets_mut", 174, <<"unreserved_keywords">>, "extend"),
      Stmt("sets_mut", 175, <<"reserved_keywords">>, "extend"),
      Stmt("update_bracket_sets", 177, <<"angle_bracket_pairs">>, ""),
      Stmt("grammar", 276, <<"LiteralGrammar">>, ""),
      Stmt("add", 182, <<"ComparisonOperatorGrammar", "FromClauseTerminatorGrammar", "TemporaryGrammar",
           "QuotedLiteralSegment", "LiteralGrammar", "NaturalJoinKeywordsGrammar",
           "LikeGrammar", "SingleIdentifierGrammar", "WhereClauseTerminatorGrammar",
           "GroupByClauseTerminatorGrammar", "HavingClauseTerminatorGrammar",
           "ArithmeticBinaryOperatorGrammar", "BinaryOperatorGrammar", "AccessorGrammar",
           "ObjectReferenceTerminatorGrammar", "FunctionContentsExpressionGrammar">>, ""),
      Stmt("add", 455, <<"FileLiteralSegment", "BackQuotedIdentifierSegment",
           "NakedSemiStructuredElementSegment", "QuotedSemiStructuredElementSegment",
           "RightArrowOperator", "BinaryfileKeywordSegment", "JsonfileKeywordSegment",
           "RcfileKeywordSegment", "SequencefileKeywordSegment", "TextfileKeywordSegment",
           "StartAngleBracketSegment", "EndAngleBracketSegment", "EqualsSegment_a",
           "EqualsSegment_b", "FileKeywordSegment", "JarKeywordSegment",
           "NoscanKeywordSegment", "WhlKeywordSegment", "CommentGrammar", "LocationGrammar",
           "SerdePropertiesGrammar", "StoredAsGrammar", "StoredByGrammar",
           "StorageFormatGrammar", "TerminatedByGrammar", "PropertyGrammar",
           "PropertyNameListGrammar", "BracketedPropertyNameListGrammar",
           "PropertyListGrammar", "BracketedPropertyListGrammar", "OptionsGrammar",
           "BucketSpecGrammar", "ClusteredBySpecGrammar", "DatabasePropertiesGrammar",
           "DataSourcesV2FileTypeGrammar", "FileFormatGrammar", "TimestampAsOfGrammar",
           "VersionAsOfGrammar", "StartHintSegment", "EndHintSegment", "PartitionSpecGrammar",
           "PartitionFieldGrammar", "PropertiesNakedIdentifierSegment", "ResourceFileGrammar",
           "ResourceLocationGrammar", "SortedBySpecGrammar", "UnsetTablePropertiesGrammar",
           "TablePropertiesGrammar", "BytesQuotedLiteralSegment", "JoinTypeKeywords",
           "AtSignLiteralSegment", "SignedQuotedLiteralSegment", "OrRefreshGrammar",
           "WidgetNameIdentifierSegment", "WidgetDefaultGrammar", "TableDefinitionSegment">>, ""),
      Stmt("insert_lexer_matchers", 1330, <<"start_hint">>, "block_comment"),
      Stmt("insert_lexer_matchers", 1341, <<"end_hint">>, "single_quote"),
      Stmt("insert_lexer_matchers", 1352, <<"end_hint">>, "like_operator"),
      Stmt("add", 1363, <<"SQLConfPropertiesSegment", "DivBinaryOperatorSegment", "QualifyClauseSegment">>, ""),
      Stmt("add", 1427, <<"PrimitiveTypeSegment", "ArrayTypeSegment", "StructTypeSegment",
           "StructTypeSchemaSegment">>, ""),
      Stmt("add", 1470, <<"SemiStructuredAccessorSegment", "DatatypeSegment", "AlterDatabaseStatementSegment">>, ""),
      Stmt("replace_grammar", 1555, <<"AlterTableStatementSegment">>, ""),
      Stmt("add", 1832, <<"ColumnFieldDefinitionSegment">>, ""),
      Stmt("add", 1850, <<"AlterViewStatementSegment">>, ""),
      Stmt("replace_grammar", 1881, <<"CreateDatabaseStatementSegment">>, ""),
      Stmt("replace_grammar", 1902, <<"CreateFunctionStatementSegment">>, ""),
      Stmt("replace_grammar", 1922, <<"CreateTableStatementSegment">>, ""),
      Stmt("add", 1928, <<"CreateHiveFormatTableStatementSegment">>, ""),
      Stmt("replace_grammar", 1933, <<"CreateViewStatementSegment">>, ""),
      Stmt("add", 1977, <<"CreateWidgetStatementSegment", "ReplaceTableStatementSegment",
           "RemoveWidgetStatementSegment">>, ""),
      Stmt("replace_grammar", 2036, <<"DropDatabaseStatementSegment">>, ""),
      Stmt("add", 2047, <<"DropFunctionStatementSegment">>, ""),
      Stmt("add", 2064, <<"MsckRepairTableStatementSegment">>, ""),
      Stmt("replace_grammar", 2069, <<"TruncateStatementSegment">>, ""),
      Stmt("add", 2079, <<"UseDatabaseStatementSegment", "InsertStatementSegment",
           "InsertOverwriteDirectorySegment", "InsertOverwriteDirectoryHiveFmtSegment",
           "LoadDataSegment", "ClusterByClauseSegment", "DistributeByClauseSegment",
           "HintFunctionSegment", "SelectHintSegment">>, ""),
      Stmt("replace_grammar", 2320, <<"LimitClauseSegment">>, ""),
      Stmt("replace_grammar", 2335, <<"SetOperatorSegment">>, ""),
      Stmt("replace_grammar", 2354, <<"SelectClauseModifierSegment">>, ""),
      Stmt("replace_grammar", 2367, <<"UnorderedSelectStatementSegment">>, ""),
      Stmt("replace_grammar", 2379, <<"SelectStatementSegment">>, ""),
      Stmt("replace_grammar", 2404, <<"GroupByClauseSegment">>, ""),
      Stmt("add", 2434, <<"WithCubeRollupClauseSegment", "SortByClauseSegment">>, ""),
      Stmt("replace_grammar", 2494, <<"SamplingExpressionSegment">>, ""),
      Stmt("add", 2514, <<"LateralViewClauseSegment", "PivotClauseSegment", "TransformClauseSegment",
           "RowFormatClauseSegment", "SkewedByClauseSegment">>, ""),
      Stmt("replace_grammar", 2629, <<"ExplainStatementSegment">>, ""),
      Stmt("add", 2647, <<"AddFileSegment", "AddJarSegment", "AnalyzeTableSegment", "CacheTableSegment",
           "ClearCacheSegment", "DescribeStatementSegment", "ListFileSegment",
           "ListJarSegment", "RefreshStatementSegment", "ResetStatementSegment",
           "SetStatementSegment", "ShowStatement", "UncacheTableSegment">>, ""),
      Stmt("replace_grammar", 3085, <<"StatementSegment">>, ""),
      Stmt("replace_grammar", 3138, <<"JoinClauseSegment">>, ""),
      Stmt("replace_grammar", 3178, <<"AliasExpressionSegment">>, ""),
      Stmt("replace_grammar", 3205, <<"ValuesClauseSegment">>, ""),
      Stmt("replace_grammar", 3241, <<"TableExpressionSegment">>, ""),
      Stmt("add", 3271, <<"FileReferenceSegment">>, ""),
      Stmt("replace_grammar", 3286, <<"FromExpressionElementSegment">>, ""),
      Stmt("add", 3313, <<"PropertyNameSegment", "GeneratedColumnDefinitionSegment">>, ""),
      Stmt("replace_grammar", 3361, <<"MergeUpdateClauseSegment">>, ""),
      Stmt("replace_grammar", 3380, <<"MergeInsertClauseSegment">>, ""),
      Stmt("replace_grammar", 3397, <<"UpdateStatementSegment">>, ""),
      Stmt("add", 3415, <<"IntervalLiteralSegment">>, ""),
      Stmt("replace_grammar", 3435, <<"IntervalExpressionSegment">>, ""),
      Stmt("add", 3446, <<"VacuumStatementSegment", "DescribeHistoryStatementSegment",
           "DescribeDetailStatementSegment", "GenerateManifestFileStatementSegment",
           "ConvertToDeltaStatementSegment", "RestoreTableStatementSegment",
           "ConstraintStatementSegment", "ApplyChangesIntoStatementSegment">>, ""),
      Stmt("replace_grammar", 3688, <<"WildcardExpressionSegment">>, ""),
      Stmt("add", 3700, <<"ExceptClauseSegment", "SelectClauseSegment", "UsingClauseSegment",
           "DataSourceFormatSegment", "IcebergTransformationSegment">>, ""),
      Stmt("replace_grammar", 3809, <<"FrameClauseSegment">>, ""),
      Stmt("expand", 3840, <<>>, ""),
      Stmt("return", 3841, <<>>, "")
    >>

\* the statements of the dialect function named fn
DialectFns == {"clickhouse_dialect", "sqlite::raw_dialect", "sqlite::dialect", "sparksql_dialect"}

StmtsOf(fn) ==
    CASE fn = "clickhouse_dialect" -> clickhouse_dialect
      [] fn = "sqlite::raw_dialect" -> sqlite_raw_dialect
      [] fn = "sqlite::dialect" -> sqlite_dialect
      [] fn = "sparksql_dialect" -> sparksql_dialect
      [] OTHER -> <<>>

\* the elements of a sequence
Range_of(s) == {s[i] : i \in DOMAIN s}

\* ansi::raw_dialect(): the grammar names that the dialect functions look up
\* or replace without having bound them themselves
AnsiGrammarNames ==
    {"AliasExpressionSegment", "AlterTableStatementSegment", "BracketedArguments",
     "CTEDefinitionSegment", "ColumnConstraintSegment", "CreateDatabaseStatementSegment",
     "CreateFunctionStatementSegment", "CreateIndexStatementSegment",
     "CreateTableStatementSegment", "CreateTriggerStatementSegment",
     "CreateViewStatementSegment", "DatatypeSegment", "DropDatabaseStatementSegment",
     "DropFunctionStatementSegment", "DropRoleStatementSegment", "DropTableStatementSegment",
     "DropUserStatementSegment", "DropViewStatementSegment", "ExplainStatementSegment",
     "FrameClauseSegment", "FromExpressionElementSegment", "GroupByClauseSegment",
     "IntervalExpressionSegment", "JoinClauseSegment", "LimitClauseSegment", "LiteralGrammar",
     "MergeInsertClauseSegment", "MergeUpdateClauseSegment", "ObjectReferenceSegment",
     "SamplingExpressionSegment", "SelectClauseModifierSegment", "SelectStatementSegment",
     "SetOperatorSegment", "StatementSegment", "TableConstraintSegment",
     "TableExpressionSegment", "TransactionStatementSegment", "TruncateStatementSegment",
     "UnorderedSelectStatementSegment", "UpdateStatementSegment", "ValuesClauseSegment",
     "WildcardExpressionSegment"}

\* ansi::raw_dialect(): the lexer matchers the dialect functions patch or
\* insert before, with whitespace first
AnsiLexerMatcherNames ==
    <<"whitespace", "inline_comment", "block_comment", "single_quote", "double_quote",
      "back_quote", "numeric_literal", "like_operator", "newline", "equals", "word">>

\* a lexer matcher of a Dialect: its name and the line that constructs it
\* (0 for a matcher of the base dialect)
LexerMatcher(name, def) == [name |-> name, def |-> def]

\* ansi::raw_dialect(): a grammar or a set is represented by the lines that
\* made it, 0 standing for the base dialect
ansi_raw_dialect ==
    [name |-> "ansi",
     library |-> [n \in AnsiGrammarNames |-> 0],
     sets |-> [s \in {"reserved_keywords", "unreserved_keywords", "bare_functions",
                      "datetime_units"} |-> <<0>>],
     lexer_matchers |-> [i \in DOMAIN AnsiLexerMatcherNames |->
                            LexerMatcher(AnsiLexerMatcherNames[i], 0)],
     bracket_sets |-> [b \in {"bracket_pairs", "angle_bracket_pairs"} |-> <<0>>],
     expanded |-> 0]

\* Dialect::add: binds every name of the entries, whether bound before or not
add(d, names, line) ==
    [d EXCEPT !.library =
        [n \in (DOMAIN d.library) \cup Range_of(names) |->
            IF n \in Range_of(names) THEN line ELSE d.library[n]]]

\* Dialect::replace_grammar on a bound name
replace_grammar(d, name, line) == [d EXCEPT !.library[name] = line]

\* position of the first matcher of the list with the name, 0 if there is none
IndexOfMatcher(matchers, name) ==
    IF \E i \in DOMAIN matchers : matchers[i].name = name
    THEN CHOOSE i \in DOMAIN matchers :
            /\ matchers[i].name = name
            /\ \A j \in 1..(i - 1) : matchers[j].name # name
    ELSE 0

\* Dialect::insert_lexer_matchers with the anchor at position k > 0
insert_lexer_matchers(d, lexer_patch, k) ==
    [d EXCEPT !.lexer_matchers =
        SubSeq(@, 1, k - 1) \o lexer_patch \o SubSeq(@, k, Len(@))]

\* Dialect::patch_lexer_matchers: a matcher with the name of a patch is
\* replaced by that patch, in place
patch_lexer_matchers(d, lexer_patch) ==
    [d EXCEPT !.lexer_matchers =
        [i \in DOMAIN @ |->
            IF IndexOfMatcher(lexer_patch, @[i].name) # 0
            THEN lexer_patch[IndexOfMatcher(lexer_patch, @[i].name)]
            ELSE @[i]]]

\* Dialect::sets_mut(label) followed by clear() or extend(..)
sets_mut(d, label, method, line) ==
    [d EXCEPT !.sets =
        [s \in (DOMAIN @) \cup {label} |->
            IF s # label THEN @[s]
            ELSE IF method = "clear" THEN <<>>
            ELSE IF s \in DOMAIN @ THEN Append(@[s], line)
            ELSE <<line>>]]

\* Dialect::update_bracket_sets
update_bracket_sets(d, label, line) ==
    [d EXCEPT !.bracket_sets =
        [b \in (DOMAIN @) \cup {label} |-> IF b = label THEN <<line>> ELSE @[b]]]

\* Dialect::expand
expand(d) == [d EXCEPT !.expanded = @ + 1]

\* the lexer matchers constructed by the statement
PatchOf(stmt) == [i \in DOMAIN stmt.names |-> LexerMatcher(stmt.names[i], stmt.line)]

DialectInit ==
    /\ dialect_fn \in DialectFns
    /\ dialect_pc = 1
    /\ dialect = ansi_raw_dialect
    /\ dialect_status = "running"

\* no dialect function is running
DialectIdle ==
    /\ dialect_fn = "none"
    /\ dialect_pc = 0
    /\ dialect = ansi_raw_dialect
    /\ dialect_status = "idle"

\* the statement the dialect function is at
CurStmt == StmtsOf(dialect_fn)[dialect_pc]

AtStmt(op) ==
    /\ dialect_status = "running"
    /\ dialect_pc \in DOMAIN StmtsOf(dialect_fn)
    /\ CurStmt.op = op

\* the statement has run
StmtDone(d) ==
    /\ dialect' = d
    /\ dialect_pc' = dialect_pc + 1
    /\ UNCHANGED <<dialect_fn, dialect_status>>
    /\ UNCHANGED non_dialect_vars

\* the statement has panicked
StmtPanic ==
    /\ dialect_status' = "panic"
    /\ UNCHANGED <<dialect_fn, dialect_pc, dialect>>
    /\ UNCHANGED non_dialect_vars

\* dialect.name = DialectKind::..
StmtName ==
    /\ AtStmt("name")
    /\ StmtDone([dialect EXCEPT !.name = dialect_fn])

\* dialect.sets_mut(label).clear() / .extend(..)
StmtSetsMut ==
    /\ AtStmt("sets_mut")
    /\ StmtDone(sets_mut(dialect, CurStmt.names[1], CurStmt.arg, CurStmt.line))

\* dialect.add([..])
StmtAdd ==
    /\ AtStmt("add")
    /\ StmtDone(add(dialect, CurStmt.names, CurStmt.line))

\* dialect.grammar(name), evaluated for the arguments of a later statement
StmtGrammar ==
    /\ AtStmt("grammar")
    /\ IF CurStmt.names[1] \in DOMAIN dialect.library
       THEN StmtDone(dialect)
       ELSE StmtPanic

\* replace_grammar that also puts the lexer matchers of the base dialect back
StmtReplaceGrammarResetting ==
    /\ AtStmt("replace_grammar")
    /\ IF CurStmt.names[1] \in DOMAIN dialect.library
       THEN StmtDone([replace_grammar(dialect, CurStmt.names[1], CurStmt.line)
                        EXCEPT !.lexer_matchers = ansi_raw_dialect.lexer_matchers])
       ELSE StmtPanic

\* dialect.replace_grammar(name, ..)
StmtReplaceGrammar ==
    /\ AtStmt("replace_grammar")
    /\ IF CurStmt.names[1] \in DOMAIN dialect.library
       THEN StmtDone(replace_grammar(dialect, CurStmt.names[1], CurStmt.line))
       ELSE StmtPanic

\* insert_lexer_matchers that splices the new matchers after the anchor
StmtInsertLexerMatchersAfter ==
    /\ AtStmt("insert_lexer_matchers")
    /\ LET k == IndexOfMatcher(dialect.lexer_matchers, CurStmt.arg)
       IN  IF k # 0
           THEN StmtDone(insert_lexer_matchers(dialect, PatchOf(CurStmt), k + 1))
           ELSE StmtPanic

\* dialect.insert_lexer_matchers(vec![..], anchor)
StmtInsertLexerMatchers ==
    /\ AtStmt("insert_lexer_matchers")
    /\ LET k == IndexOfMatcher(dialect.lexer_matchers, CurStmt.arg)
       IN  IF k # 0
           THEN StmtDone(insert_lexer_matchers(dialect, PatchOf(CurStmt), k))
           ELSE StmtPanic

\* patch_lexer_matchers that puts the patches in front of the list
StmtPatchLexerMatchersInFront ==
    /\ AtStmt("patch_lexer_matchers")
    /\ StmtDone(insert_lexer_matchers(dialect, PatchOf(CurStmt), 1))

\* dialect.patch_lexer_matchers(vec![..])
StmtPatchLexerMatchers ==
    /\ AtStmt("patch_lexer_matchers")
    /\ StmtDone(patch_lexer_matchers(dialect, PatchOf(CurStmt)))

\* dialect.update_bracket_sets(label, ..)
StmtUpdateBracketSets ==
    /\ AtStmt("update_bracket_sets")
    /\ StmtDone(update_bracket_sets(dialect, CurStmt.names[1], CurStmt.line))

\* dialect.expand()
StmtExpand ==
    /\ AtStmt("expand")
    /\ StmtDone(expand(dialect))

\* the dialect function returns the Dialect
StmtReturn ==
    /\ AtStmt("return")
    /\ dialect_status' = "returned"
    /\ UNCHANGED <<dialect_fn, dialect_pc, dialect>>
    /\ UNCHANGED non_dialect_vars

\* ------------------------------------------------------------------------
\* iter_segments as a state machine, on templated files of several slices
\* ------------------------------------------------------------------------
\* slices of a sliced_file: slice type, length in the source, length in the
\* templated string ("comment" and "block_end" stand for the types the code
\* does not name, without and with text in the templated string)
SliceShapes ==
    { <<"literal", 1, 1>>, <<"literal", 2, 2>>, <<"comment", 1, 0>>, <<"templated", 1, 1>>,
      <<"block_start", 1, 1>>, <<"block_end", 1, 1>> }

RECURSIVE SlicedFiles(_, _, _)
\* the sliced files of 1..n slices that start at the source offset src and
\* the templated offset tpl: contiguous and ordered in both
SlicedFiles(n, src, tpl) ==
    IF n = 0 THEN {}
    ELSE UNION { LET first == TemplatedFileSlice(sh[1], Range(src, src + sh[2]),
                                                 Range(tpl, tpl + sh[3]))
                 IN  {<<first>>}
                       \cup { <<first>> \o rest :
                                rest \in SlicedFiles(n - 1, src + sh[2], tpl + sh[3]) }
                 : sh \in SliceShapes }

\* the text of a lexed element of the kind, len characters long
RawOf(name, len) == [i \in 1..len |-> IF name = "whitespace" THEN " " ELSE "f"]

RECURSIVE Tilings(_, _)
\* the lists of TemplateElements that map_template_slices yields for a
\* templated string of length to: contiguous from offset from
Tilings(from, to) ==
    IF from = to THEN {<<>>}
    ELSE UNION { { <<FromElement(Element(name, RawOf(name, len)), Range(from, from + len))>>
                     \o rest : rest \in Tilings(from + len, to) }
                 : name \in {"word", "whitespace"},
                   len \in 1..(IF to - from < MaxElementLen THEN to - from ELSE MaxElementLen) }

\* outcome of one turn of the inner for loop
Turn(status, idx, stash, segs) ==
    [status |-> status, tfs_idx |-> idx, stashed_source_idx |-> stash, result |-> segs]

\* one turn of the inner for loop of iter_segments, at slice idx (0-based);
\* consumed_element_length is the constant 0 of the code
SliceTurn(element, slices, idx, stash, segs) ==
    LET tfs == slices[idx + 1]
        consumed_element_length == 0
        tfs_offset == tfs.source_slice.start - tfs.templated_slice.start
        continue(st, r) == Turn("continue", idx, st, r)
    IN  IF is_zero_slice(tfs.templated_slice)
        THEN continue(stash, segs)
        ELSE IF tfs.slice_type = "literal"
        THEN IF tfs_offset < 0 THEN Turn("panic", idx, stash, segs)
             ELSE IF element.template_slice.end <= tfs.templated_slice.end
             THEN LET slice_start ==
                          IF stash # NoIdx THEN stash
                          ELSE element.template_slice.start + consumed_element_length
                                 + tfs_offset
                  IN  Turn("break",
                           IF element.template_slice.end = tfs.templated_slice.end
                           THEN idx + 1 ELSE idx,
                           stash,
                           Append(segs,
                                  ToSegment(element,
                                            PositionMarker(
                                                Range(slice_start,
                                                      element.template_slice.end + tfs_offset),
                                                element.template_slice),
                                            Range(consumed_element_length, Len(element.raw)))))
             ELSE IF element.template_slice.start = tfs.templated_slice.end
             THEN continue(stash, segs)
             ELSE IF element.matcher.name = "whitespace"
             THEN LET incremental_length ==
                          tfs.templated_slice.end - element.template_slice.start
                      subslice == offset_slice(consumed_element_length, incremental_length)
                  IN  IF \/ stash # NoIdx
                         \/ incremental_length < 0
                         \/ subslice.end > Len(element.raw)
                      THEN Turn("panic", idx, stash, segs)
                      ELSE continue(stash,
                                    Append(segs,
                                           ToSegment(element,
                                                     PositionMarker(
                                                         Range(element.template_slice.start
                                                                 + consumed_element_length
                                                                 + tfs_offset,
                                                               tfs.templated_slice.end + tfs_offset),
                                                         element.template_slice),
                                                     subslice)))
             ELSE IF stash = NoIdx
             THEN continue(element.template_slice.start + idx, segs)
             ELSE continue(stash, segs)
        ELSE IF tfs.slice_type \in {"templated", "block_start"}
        THEN Turn("panic", idx, stash, segs)
        ELSE continue(stash, segs)

\* the templated string that the lexed elements tile
TemplatedStr(elements) ==
    [i \in 1..(IF elements = <<>> THEN 0 ELSE elements[Len(elements)].template_slice.end) |->
        LET k == CHOOSE k \in DOMAIN elements :
                     /\ elements[k].template_slice.start < i
                     /\ i <= elements[k].template_slice.end
        IN  elements[k].raw[i - elements[k].template_slice.start]]

\* the outer tfs_idx of iter_segments (line 468), which nothing assigns
outer_tfs_idx == 0

IterInit ==
    /\ \E slices \in SlicedFiles(MaxSlices, 0, 0) :
         /\ lexed_elements \in Tilings(0, slices[Len(slices)].templated_slice.end)
         /\ templated_file =
              [templated_str |-> TemplatedStr(lexed_elements),
               sliced_file |-> slices]
    /\ iter_pc = "element"
    /\ element_idx = 1
    /\ tfs_idx = outer_tfs_idx
    /\ stashed_source_idx = NoIdx
    /\ result = <<>>

\* iter_segments is not running
IterIdle ==
    /\ lexed_elements = <<>>
    /\ templated_file = FromString(<<>>)
    /\ iter_pc = "idle"
    /\ element_idx = 0
    /\ tfs_idx = 0
    /\ stashed_source_idx = NoIdx
    /\ result = <<>>

\* iter_segments, lines 474-483: the next element of lexed_elements and the
\* start of its inner loop, or the return of result
IterElement ==
    /\ iter_pc = "element"
    /\ IF element_idx > Len(lexed_elements)
       THEN /\ iter_pc' = "done"
            /\ UNCHANGED <<tfs_idx, stashed_source_idx>>
       ELSE /\ iter_pc' = "slice"
            /\ tfs_idx' = outer_tfs_idx
            /\ stashed_source_idx' = NoIdx
    /\ UNCHANGED <<lexed_elements, templated_file, element_idx, result>>
    /\ UNCHANGED non_iter_vars

\* the inner loop with a templated or block_start slice passed over like the
\* slice types the code does not name
IterSliceSkipping ==
    /\ iter_pc = "slice"
    /\ IF tfs_idx >= Len(templated_file.sliced_file)
       THEN /\ iter_pc' = "element"
            /\ element_idx' = element_idx + 1
            /\ UNCHANGED <<tfs_idx, stashed_source_idx, result>>
       ELSE LET turn == SliceTurn(lexed_elements[element_idx], templated_file.sliced_file,
                                  tfs_idx, stashed_source_idx, result)
                tfs == templated_file.sliced_file[tfs_idx + 1]
            IN  /\ stashed_source_idx' = turn.stashed_source_idx
                /\ result' = turn.result
                /\ IF \/ turn.status = "continue"
                      \/ tfs.slice_type \in {"templated", "block_start"}
                   THEN /\ tfs_idx' = tfs_idx + 1
                        /\ UNCHANGED <<iter_pc, element_idx>>
                   ELSE IF turn.status = "break"
                   THEN /\ tfs_idx' = turn.tfs_idx
                        /\ iter_pc' = "element"
                        /\ element_idx' = element_idx + 1
                   ELSE /\ iter_pc' = "panic"
                        /\ UNCHANGED <<tfs_idx, element_idx>>
    /\ UNCHANGED <<lexed_elements, templated_file>>
    /\ UNCHANGED non_iter_vars

\* iter_segments, lines 478-579: one turn of the inner loop for the element,
\* or its end when the slices are exhausted
IterSlice ==
    /\ iter_pc = "slice"
    /\ IF tfs_idx >= Len(templated_file.sliced_file)
       THEN /\ iter_pc' = "element"
            /\ element_idx' = element_idx + 1
            /\ UNCHANGED <<tfs_idx, stashed_source_idx, result>>
       ELSE LET turn == SliceTurn(lexed_elements[element_idx], templated_file.sliced_file,
                                  tfs_idx, stashed_source_idx, result)
            IN  /\ stashed_source_idx' = turn.stashed_source_idx
                /\ result' = turn.result
                /\ IF turn.status = "continue"
                   THEN /\ tfs_idx' = tfs_idx + 1
                        /\ UNCHANGED <<iter_pc, element_idx>>
                   ELSE IF turn.status = "break"
                   THEN /\ tfs_idx' = turn.tfs_idx
                        /\ iter_pc' = "element"
                        /\ element_idx' = element_idx + 1
                   ELSE /\ iter_pc' = "panic"
                        /\ UNCHANGED <<tfs_idx, element_idx>>
    /\ UNCHANGED <<lexed_elements, templated_file>>
    /\ UNCHANGED non_iter_vars

\* ------------------------------------------------------------------------
\* ReflowSequence (utils/reflow/sequence.rs)
\* ------------------------------------------------------------------------
\* a raw segment: uuid tells two segments of the same type apart
RawSegment(uuid, type) == [uuid |-> uuid, type |-> type]

\* the types of the raw segments of a root
RawTypes == {"word", "comment", "whitespace"}

\* ErasedSegment::is_code
is_code(seg) == seg.type = "word"

\* root_segment.get_raw_segments(), for the roots of 1..MaxRaws raw segments
RootRaws ==
    UNION { { [i \in 1..n |-> RawSegment(i, types[i])] : types \in [1..n -> RawTypes] }
            : n \in 1..MaxRaws }

\* iter().position(|x| x == seg): 0-based, NoIdx for None
Position(list, seg) ==
    IF \E i \in DOMAIN list : list[i] = seg
    THEN (CHOOSE i \in DOMAIN list :
              /\ list[i] = seg
              /\ \A j \in 1..(i - 1) : list[j] # seg) - 1
    ELSE NoIdx

ReflowPoint(segs) == [kind |-> "point", segments |-> segs]

ReflowBlock(segs) == [kind |-> "block", segments |-> segs]

RECURSIVE ElementsLoop(_, _, _, _)
\* elements_from_raw_segments, lines 64-94: the for loop from segs[k] on with
\* elem_buff = elems, and the push of the last point
ElementsLoop(segs, k, elems, seg_buff) ==
    IF k > Len(segs)
    THEN IF seg_buff # <<>> THEN Append(elems, ReflowPoint(seg_buff)) ELSE elems
    ELSE LET seg == segs[k]
         IN  IF seg.type \in {"whitespace", "newline", "indent", "dedent"}
             THEN ElementsLoop(segs, k + 1, elems, Append(seg_buff, seg))
             ELSE LET with_point ==
                          IF elems # <<>> \/ seg_buff # <<>>
                          THEN Append(elems, ReflowPoint(seg_buff))
                          ELSE elems
                  IN  ElementsLoop(segs, k + 1, Append(with_point, ReflowBlock(<<seg>>)), <<>>)

\* elements_from_raw_segments that leaves out the empty points
elements_from_raw_segments_gapless(segs) ==
    SelectSeq(ElementsLoop(segs, 1, <<>>, <<>>),
              LAMBDA elem : elem.kind = "block" \/ elem.segments # <<>>)

\* ReflowSequence::elements_from_raw_segments
elements_from_raw_segments(segs) == ElementsLoop(segs, 1, <<>>, <<>>)

RECURSIVE ElementSegments(_)
\* the segments of the elements, in order
ElementSegments(elems) ==
    IF elems = <<>> THEN <<>> ELSE Head(elems).segments \o ElementSegments(Tail(elems))

\* LintResult::new(anchor, fixes, ..)
LintResult(anchor, fixes) == [anchor |-> anchor, fixes |-> fixes]

\* LintFix::create_before, LintFix::delete, LintFix::replace
LintFix(edit_type, anchor, edit) == [edit_type |-> edit_type, anchor |-> anchor, edit |-> edit]

\* a method call on the sequence: the raw segments of its target and its
\* sides or pos argument
Call(method, target, arg) == [method |-> method, target |-> target, arg |-> arg]

\* the sequence with the method call added to those made
Called(call) ==
    /\ reflow_ops' = Append(reflow_ops, call.method)
    /\ last_call' = call

\* find_element_idx_with: 0-based, NoIdx where the code panics
find_element_idx_with(elems, target) ==
    IF \E i \in DOMAIN elems : \E j \in DOMAIN elems[i].segments : elems[i].segments[j] = target
    THEN (CHOOSE i \in DOMAIN elems :
              /\ \E j \in DOMAIN elems[i].segments : elems[i].segments[j] = target
              /\ \A h \in 1..(i - 1) :
                    \A j \in DOMAIN elems[h].segments : elems[h].segments[j] # target) - 1
    ELSE NoIdx

\* from_around_target, lines 115-123: pre_idx after the step before the
\* target, from the position p of the target's first raw segment; NoIdx
\* where `pre_idx -= 1` underflows
PreIdx(all_raws, p, sides) ==
    IF sides \in {"both", "before"}
    THEN IF p = 0 THEN NoIdx
         ELSE LET codes == { i \in 0..(p - 1) : is_code(all_raws[i + 1]) }
              IN  IF codes = {} THEN p - 1
                  ELSE CHOOSE i \in codes : \A j \in codes : j <= i
    ELSE p

\* from_around_target, lines 125-133: post_idx after the step behind the
\* target, from the position p behind the target's last raw segment
PostIdx(all_raws, p, sides) ==
    IF sides \in {"both", "after"}
    THEN LET codes == { i \in p..(Len(all_raws) - 1) : is_code(all_raws[i + 1]) }
         IN  (IF codes = {} THEN p
              ELSE CHOOSE i \in codes : \A j \in codes : i <= j) + 1
    ELSE p

\* the fresh segment that the n-th method call brings in
NewSegment(n, type) == RawSegment(0 - n, type)

ReflowInit ==
    /\ root_raws \in RootRaws
    /\ reflow_elements = <<>>
    /\ lint_results = <<>>
    /\ reflow_pc = "start"
    /\ reflow_ops = <<>>
    /\ last_call = Call("", <<>>, "")
    /\ raw_segments = <<>>
    /\ pre_idx = NoIdx
    /\ post_idx = NoIdx
    /\ pass_results = <<>>

\* no ReflowSequence exists
ReflowIdle ==
    /\ root_raws = <<>>
    /\ reflow_elements = <<>>
    /\ lint_results = <<>>
    /\ reflow_pc = "idle"
    /\ reflow_ops = <<>>
    /\ last_call = Call("", <<>>, "")
    /\ raw_segments = <<>>
    /\ pre_idx = NoIdx
    /\ post_idx = NoIdx
    /\ pass_results = <<>>

\* the sequence after a method that panicked
ReflowPanic(call) ==
    /\ reflow_pc' = "panic"
    /\ Called(call)
    /\ UNCHANGED <<root_raws, reflow_elements, lint_results, raw_segments, pre_idx, post_idx,
                   pass_results>>

\* ReflowSequence::from_root with from_raw_segments
FromRoot ==
    /\ reflow_pc = "start"
    /\ raw_segments' = root_raws
    /\ reflow_elements' = elements_from_raw_segments(root_raws)
    /\ lint_results' = <<>>
    /\ reflow_pc' = "ready"
    /\ Called(Call("from_root", root_raws, ""))
    /\ UNCHANGED <<root_raws, pre_idx, post_idx, pass_results>>
    /\ UNCHANGED non_reflow_vars

\* ReflowSequence::from_around_target with from_raw_segments, for a target
\* whose raw segments are root_raws[lo..hi]
FromAroundTarget ==
    /\ reflow_pc = "start"
    /\ \E lo \in DOMAIN root_raws, sides \in {"both", "before", "after"} :
         \E hi \in lo..Len(root_raws) :
           LET all_raws == root_raws
               target_raws == SubSeq(root_raws, lo, hi)
               call == Call("from_around_target", target_raws, sides)
               pre == PreIdx(all_raws, Position(all_raws, target_raws[1]), sides)
               post == PostIdx(all_raws,
                               Position(all_raws, target_raws[Len(target_raws)]) + 1, sides)
           IN  IF pre = NoIdx
               THEN ReflowPanic(call)
               ELSE IF post > Len(all_raws) \/ pre > post
               THEN /\ reflow_pc' = "panic"
                    /\ Called(call)
                    /\ pre_idx' = pre
                    /\ post_idx' = post
                    /\ UNCHANGED <<root_raws, reflow_elements, lint_results, raw_segments,
                                   pass_results>>
               ELSE /\ pre_idx' = pre
                    /\ post_idx' = post
                    /\ raw_segments' = SubSeq(all_raws, pre + 1, post)
                    /\ reflow_elements' = elements_from_raw_segments(raw_segments')
                    /\ lint_results' = <<>>
                    /\ reflow_pc' = "ready"
                    /\ Called(call)
                    /\ UNCHANGED <<root_raws, pass_results>>
    /\ UNCHANGED non_reflow_vars

\* a method may be called on the sequence
Callable ==
    /\ reflow_pc = "ready"
    /\ Len(reflow_ops) <= MaxOps

\* ReflowSequence::insert
Insert ==
    /\ Callable
    /\ \E t \in DOMAIN root_raws, pos \in {"before", "after"} :
         LET target == root_raws[t]
             insertion == NewSegment(Len(reflow_ops), "word")
             call == Call("insert", <<target>>, pos)
             target_idx == find_element_idx_with(reflow_elements, target)
         IN  IF target_idx = NoIdx
             THEN ReflowPanic(call)
             ELSE /\ Called(call)
                  /\ IF pos = "before"
                     THEN /\ reflow_elements' =
                               SubSeq(reflow_elements, 1, target_idx)
                                 \o <<ReflowBlock(<<insertion>>), ReflowPoint(<<>>)>>
                                 \o SubSeq(reflow_elements, target_idx + 1, Len(reflow_elements))
                          /\ lint_results' =
                               << LintResult(target,
                                             <<LintFix("create_before", target, <<insertion>>)>>) >>
                     ELSE UNCHANGED <<reflow_elements, lint_results>>
                  /\ UNCHANGED <<root_raws, reflow_pc, raw_segments, pre_idx, post_idx,
                                 pass_results>>
    /\ UNCHANGED non_reflow_vars

\* ReflowSequence::without
Without ==
    /\ Callable
    /\ \E t \in DOMAIN root_raws :
         LET target == root_raws[t]
             call == Call("without", <<target>>, "")
             removal_idx == find_element_idx_with(reflow_elements, target)
         IN  IF \/ removal_idx = NoIdx
                \/ removal_idx = 0
                \/ removal_idx = Len(reflow_elements) - 1
                \/ reflow_elements[removal_idx + 1].kind = "point"
             THEN ReflowPanic(call)
             ELSE LET merged_point ==
                          ReflowPoint(reflow_elements[removal_idx].segments
                                        \o reflow_elements[removal_idx + 2].segments)
                  IN  /\ reflow_elements' =
                           SubSeq(reflow_elements, 1, removal_idx - 1)
                             \o <<merged_point>>
                             \o SubSeq(reflow_elements, removal_idx + 3, Len(reflow_elements))
                      /\ lint_results' =
                           << LintResult(target, <<LintFix("delete", target, <<>>)>>) >>
                      /\ Called(call)
                      /\ UNCHANGED <<root_raws, reflow_pc, raw_segments, pre_idx, post_idx,
                                     pass_results>>
    /\ UNCHANGED non_reflow_vars

\* ReflowSequence::replace, for a target that is one raw segment
Replace ==
    /\ Callable
    /\ \E t \in DOMAIN root_raws,
          edit \in { <<>>, <<NewSegment(Len(reflow_ops), "word")>> } :
         LET target == root_raws[t]
             target_raws == <<target>>
             edit_raws == edit
             call == Call("replace", target_raws, "")
             current_raws == ElementSegments(reflow_elements)
             start_idx == Position(current_raws, target_raws[1])
             last_idx == Position(current_raws, target_raws[Len(target_raws)])
         IN  IF start_idx = NoIdx \/ last_idx = NoIdx
             THEN ReflowPanic(call)
             ELSE /\ raw_segments' =
                       SubSeq(current_raws, 1, start_idx)
                         \o edit_raws
                         \o SubSeq(current_raws, last_idx + 2, Len(current_raws))
                  /\ reflow_elements' = elements_from_raw_segments(raw_segments')
                  /\ lint_results' =
                       << LintResult(target, <<LintFix("replace", target, edit)>>) >>
                  /\ Called(call)
                  /\ UNCHANGED <<root_raws, reflow_pc, pre_idx, post_idx, pass_results>>
    /\ UNCHANGED non_reflow_vars

\* the lint results that a pass over the elements may return: none, or one
\* result on the first block
PassResultsOf(method, elems) ==
    {<<>>} \cup { << LintResult(elems[i].segments[1], <<LintFix(method, elems[i].segments[1], <<>>)>>) >>
                  : i \in { i \in DOMAIN elems :
                              /\ elems[i].kind = "block"
                              /\ \A j \in 1..(i - 1) : elems[j].kind # "block" } }

\* rebreak without the check for lint results of an earlier method
PassOverExisting(method) ==
    /\ Callable
    /\ \E results \in PassResultsOf(method, reflow_elements) :
         /\ pass_results' = results
         /\ lint_results' = lint_results \o results
         /\ Called(Call(method, <<>>, ""))
         /\ UNCHANGED <<root_raws, reflow_elements, reflow_pc, raw_segments, pre_idx,
                        post_idx>>
    /\ UNCHANGED non_reflow_vars

\* rebreak, reindent and break_long_lines: the check for lint results, the
\* pass and the sequence built from its results
Pass(method) ==
    /\ Callable
    /\ IF lint_results # <<>>
       THEN ReflowPanic(Call(method, <<>>, ""))
       ELSE \E results \in PassResultsOf(method, reflow_elements) :
              /\ pass_results' = results
              /\ lint_results' = results
              /\ Called(Call(method, <<>>, ""))
              /\ UNCHANGED <<root_raws, reflow_elements, reflow_pc, raw_segments, pre_idx,
                             post_idx>>
    /\ UNCHANGED non_reflow_vars

\* ReflowSequence::rebreak
Rebreak == Pass("rebreak")

\* ReflowSequence::reindent
Reindent == Pass("reindent")

\* ReflowSequence::break_long_lines
BreakLongLines == Pass("break_long_lines")

\* ------------------------------------------------------------------------
\* RuleCV11 (rules/convention/cv11.rs)
\* ------------------------------------------------------------------------
\* u8::to_ascii_uppercase, on the letters of the function names below
to_ascii_uppercase(ch) ==
    CASE ch = "a" -> "A" [] ch = "b" -> "B" [] ch = "c" -> "C" [] ch = "e" -> "E"
      [] ch = "n" -> "N" [] ch = "o" -> "O" [] ch = "r" -> "R" [] ch = "s" -> "S"
      [] ch = "t" -> "T" [] ch = "v" -> "V" [] OTHER -> ch

\* str::eq_ignore_ascii_case
eq_ignore_ascii_case(a, b) ==
    /\ Len(a) = Len(b)
    /\ \A i \in DOMAIN a : to_ascii_uppercase(a[i]) = to_ascii_uppercase(b[i])

\* the raw text of the FunctionName child of a Function segment; NoStr for a
\* Function segment without that child
FunctionNames ==
    { SomeStr(<<"C", "A", "S", "T">>), SomeStr(<<"c", "a", "s", "t">>),
      SomeStr(<<"C", "o", "n", "v", "e", "r", "t">>), SomeStr(<<"a", "b", "s">>), NoStr }

\* a segment the crawler hands to eval: its type, its FunctionName and the
\* number of children that get_children keeps (of its Bracketed child for a
\* Function, of itself for a CastExpression)
CvSegment(kind, function_name, contents) ==
    [kind |-> kind, function_name |-> function_name, contents |-> contents]

\* crawl_behaviour: Function and CastExpression segments
VisitedSegments ==
    { CvSegment("function", name, n) : name \in FunctionNames, n \in 2..3 }
      \cup { CvSegment("cast_expression", NoStr, n) : n \in 2..3 }

\* no segment visited yet
NoSegment == CvSegment("", NoStr, 0)

\* eval, lines 142-160: current_type_casting_style; "return" where eval
\* returns for want of a FunctionName
CurrentTypeCastingStyle(segment) ==
    IF segment.kind = "function"
    THEN IF ~segment.function_name.found THEN "return"
         ELSE IF eq_ignore_ascii_case(segment.function_name.text, <<"C", "A", "S", "T">>)
         THEN "cast"
         ELSE IF eq_ignore_ascii_case(segment.function_name.text,
                                      <<"C", "O", "N", "V", "E", "R", "T">>)
         THEN "convert"
         ELSE "none"
    ELSE IF segment.kind = "cast_expression" THEN "shorthand"
    ELSE "none"

\* what one call of eval leaves behind: its return value and the context
Evaluated(results, prior, skipped) ==
    [results |-> results, prior |-> prior, skipped |-> skipped]

\* eval, lines 163-283: preferred_type_casting_style is Consistent
EvalConsistent(segment, current, prior, skipped) ==
    IF prior = "unset"
    THEN Evaluated(<<>>, current, skipped)
    ELSE LET long == segment.contents > 2
             fixes ==
                 IF prior = "cast" /\ current = "convert" THEN <<"cast_fix_list">>
                 ELSE IF prior = "cast" /\ current = "shorthand" THEN <<"cast_fix_list">>
                 ELSE IF prior = "convert" /\ current = "cast" THEN <<"convert_fix_list">>
                 ELSE IF prior = "convert" /\ current = "shorthand" THEN <<"convert_fix_list">>
                 ELSE IF prior = "shorthand" /\ current \in {"cast", "convert"}
                 THEN <<"shorthand_fix_list">>
                 ELSE <<>>
         IN  IF prior = "cast" /\ current = "convert" /\ long
             THEN Evaluated(<<>>, prior, TRUE)
             ELSE IF /\ long
                     /\ \/ prior = "convert" /\ current = "cast"
                        \/ prior = "shorthand" /\ current \in {"cast", "convert"}
             THEN Evaluated(<<>>, prior, skipped)
             ELSE IF prior # current
             THEN Evaluated(<< [anchor |-> segment, fixes |-> fixes,
                                description |-> "Inconsistent type casting styles found."] >>,
                            prior, skipped)
             ELSE Evaluated(<<>>, prior, skipped)

\* eval, lines 285-407: a preferred style other than Consistent
EvalPreferred(preferred, segment, current, prior, skipped) ==
    IF current # preferred
    THEN LET long == segment.contents > 2
             fixes ==
                 IF preferred = "cast" /\ current = "convert"
                 THEN IF long THEN <<>> ELSE <<"cast_fix_list">>
                 ELSE IF preferred = "cast" /\ current = "shorthand" THEN <<"cast_fix_list">>
                 ELSE IF preferred = "convert" /\ current \in {"cast", "shorthand"}
                 THEN <<"convert_fix_list">>
                 ELSE IF preferred = "shorthand" /\ current \in {"cast", "convert"}
                 THEN IF long THEN <<>> ELSE <<"shorthand_fix_list">>
                 ELSE <<>>
         IN  Evaluated(<< [anchor |-> segment, fixes |-> fixes,
                           description |->
                               "Used type casting style is different from the preferred type casting style."] >>,
                       prior, skipped)
    ELSE Evaluated(<<>>, prior, skipped)

CvInit ==
    /\ preferred_type_casting_style \in {"consistent", "cast", "convert", "shorthand"}
    /\ cv_segment = NoSegment
    /\ prior_type_casting_style = "unset"
    /\ previous_skipped = FALSE
    /\ cv_results = <<>>
    /\ cv_visits = 0

\* no rule is running
CvIdle ==
    /\ preferred_type_casting_style = ""
    /\ cv_segment = NoSegment
    /\ prior_type_casting_style = "unset"
    /\ previous_skipped = FALSE
    /\ cv_results = <<>>
    /\ cv_visits = 0

\* RuleCV11::eval on the next segment that the crawler finds
Eval ==
    /\ preferred_type_casting_style # ""
    /\ cv_visits < MaxVisits
    /\ \E segment \in VisitedSegments :
         LET current == CurrentTypeCastingStyle(segment)
             out == IF current = "return"
                    THEN Evaluated(<<>>, prior_type_casting_style, previous_skipped)
                    ELSE IF preferred_type_casting_style = "consistent"
                    THEN EvalConsistent(segment, current, prior_type_casting_style,
                                        previous_skipped)
                    ELSE EvalPreferred(preferred_type_casting_style, segment, current,
                                       prior_type_casting_style, previous_skipped)
         IN  /\ cv_segment' = segment
             /\ cv_results' = out.results
             /\ prior_type_casting_style' = out.prior
             /\ previous_skipped' = out.skipped
    /\ cv_visits' = cv_visits + 1
    /\ UNCHANGED preferred_type_casting_style
    /\ UNCHANGED non_cv_vars

\* ------------------------------------------------------------------------
\* Specifications
\* ------------------------------------------------------------------------
Init == LexInit /\ ParserIdle /\ DialectIdle /\ IterIdle /\ ReflowIdle /\ CvIdle

Next ==
    \/ CallLexMatch
    \/ LexMatchMain
    \/ LexMatchFor
    \/ LexResort
    \/ LexMapTemplateSlices
    \/ LexElementsToSegments

\* the lexer run on a plain string
Spec == Init /\ [][Next]_vars

ParserSpecInit == LexIdle /\ ParserInit /\ DialectIdle /\ IterIdle /\ ReflowIdle /\ CvIdle

ParserNext ==
    \/ ParseEntry
    \/ ParseRoot

\* the parser run on a token list
ParserSpec == ParserSpecInit /\ [][ParserNext]_vars

DialectSpecInit == LexIdle /\ ParserIdle /\ DialectInit /\ IterIdle /\ ReflowIdle /\ CvIdle

DialectNext ==
    \/ StmtName
    \/ StmtSetsMut
    \/ StmtAdd
    \/ StmtGrammar
    \/ StmtReplaceGrammar
    \/ StmtInsertLexerMatchers
    \/ StmtPatchLexerMatchers
    \/ StmtUpdateBracketSets
    \/ StmtExpand
    \/ StmtReturn

\* a dialect function run on the base dialect
DialectSpec == DialectSpecInit /\ [][DialectNext]_vars

IterSpecInit == LexIdle /\ ParserIdle /\ DialectIdle /\ IterInit /\ ReflowIdle /\ CvIdle

IterNext ==
    \/ IterElement
    \/ IterSlice

\* iter_segments run on the lexed elements of a templated file
IterSpec == IterSpecInit /\ [][IterNext]_vars

ReflowSpecInit ==
    LexIdle /\ ParserIdle /\ DialectIdle /\ IterIdle /\ ReflowInit /\ CvIdle

ReflowNext ==
    \/ FromRoot
    \/ FromAroundTarget
    \/ Insert
    \/ Without
    \/ Replace
    \/ Rebreak
    \/ Reindent
    \/ BreakLongLines

\* a ReflowSequence built over the raw segments of a root and then edited
ReflowSpec == ReflowSpecInit /\ [][ReflowNext]_vars

CvSpecInit ==
    LexIdle /\ ParserIdle /\ DialectIdle /\ IterIdle /\ ReflowIdle /\ CvInit

CvNext == Eval

\* RuleCV11 run over the Function and CastExpression segments of a file
CvSpec == CvSpecInit /\ [][CvNext]_vars

\* ------------------------------------------------------------------------
\* Properties
\* ------------------------------------------------------------------------
RECURSIVE Flatten(_)
\* concatenation of a sequence of texts
Flatten(texts) == IF texts = <<>> THEN <<>> ELSE Head(texts) \o Flatten(Tail(texts))

SegmentRaws(segs) == [i \in DOMAIN segs |-> segs[i].raw]

\* C1: when lex returns, the raw texts of the returned segments (the
\* end-of-file segment contributing the empty text), concatenated in order,
\* are the input string.
RoundTripCompleteness ==
    pc = "done" => Flatten(SegmentRaws(segments)) = raw

\* C2: the TemplateElements tile the templated string: the first slice starts
\* at 0, each slice starts where the previous one ends, each slice is as long
\* as its text, and the last slice ends at the length of the templated string.
TemplateElementsTile ==
    pc \in {"segments", "done"} =>
        LET n == Len(templated_buffer)
            slice(i) == templated_buffer[i].template_slice
        IN  /\ \A i \in 1..n :
                 /\ slice(i).start = (IF i = 1 THEN 0 ELSE slice(i - 1).end)
                 /\ slice(i).end - slice(i).start = Len(templated_buffer[i].raw)
            /\ (IF n = 0 THEN 0 ELSE slice(n).end) = Len(template.templated_str)

\* the matcher at position i is the first of the list that yields elements on fs
IsFirstMatch(matchers, i, fs) ==
    /\ i \in 1..Len(matchers)
    /\ Matches(matchers[i], fs).elements # <<>>
    /\ \A j \in 1..(i - 1) : Matches(matchers[j], fs).elements = <<>>

\* C3: every turn of lex_match that appends elements appends those of the
\* first matcher, in list order, that yields a non-empty result on the
\* remaining input (whatever later matchers would match), the remainder
\* becomes that matcher's remainder, and the next search starts again at the
\* first matcher of the list.
FirstMatchWinsStep ==
    /\ (pc = "for" /\ pc' = "lex_match") =>
          \E i \in 1..Len(lexer_matchers) :
              /\ IsFirstMatch(lexer_matchers, i, forward_string)
              /\ elem_buff' = elem_buff \o Matches(lexer_matchers[i], forward_string).elements
              /\ forward_string' = Matches(lexer_matchers[i], forward_string).forward_string
    /\ (pc = "lex_match" /\ pc' = "for") => matcher_idx' = 1
    /\ (pc = "for" /\ pc' = "lex_ret") =>
          /\ \A j \in 1..Len(lexer_matchers) :
                 Matches(lexer_matchers[j], forward_string).elements = <<>>
          /\ res' = Match(forward_string, elem_buff)

FirstMatchWins == [][FirstMatchWinsStep]_vars

\* C3 witness: both matchers of the list match the input at offset 0 with
\* different results, and the elements collected are the first matcher's.
FirstMatchWinsWitness ==
    /\ pc = "lex_match"
    /\ Len(lexer_matchers) = 2
    /\ Matches(lexer_matchers[1], raw).elements # <<>>
    /\ Matches(lexer_matchers[2], raw).elements # <<>>
    /\ Len(Matches(lexer_matchers[1], raw).elements[1].text)
         < Len(Matches(lexer_matchers[2], raw).elements[1].text)
    /\ elem_buff = Matches(lexer_matchers[1], raw).elements

\* the result r of m.matches(input) is what C4 states
MatchesContract(m, input, r) ==
    LET matched == PatternMatches(m.pattern, input)
    IN  IF matched.found
        THEN /\ r.elements = << Element(m.pattern.name, matched.text) >>
             /\ matched.text \o r.forward_string = input
             /\ Len(r.forward_string) = Len(input) - Len(matched.text)
        ELSE /\ r.elements = <<>>
             /\ r.forward_string = input

\* C4: a matcher without subdivider applied to the remaining input returns
\* exactly one element (the matched prefix, under the matcher's name) and the
\* input without that prefix when its pattern matches at offset 0, and no
\* element and the input unchanged otherwise.  Checked on every call that
\* lex_match and lex make.
MatchesWithoutSubdividerStep ==
    /\ (/\ pc = "for"
        /\ matcher_idx <= Len(lexer_matchers)
        /\ lexer_matchers[matcher_idx].subdivider = NoPattern)
         => MatchesContract(lexer_matchers[matcher_idx], forward_string, match_result')
    /\ (pc = "lex_ret" /\ res.forward_string # <<>>)
         => MatchesContract(LastResortLexer, str_buff, resort_res')

MatchesWithoutSubdivider == [][MatchesWithoutSubdividerStep]_vars

\* C4 witness: a regex matcher without subdivider has matched a proper,
\* non-empty prefix of the remaining input.
MatchesWithoutSubdividerWitness ==
    /\ pc = "lex_match"
    /\ matcher_idx \in 1..Len(lexer_matchers)
    /\ lexer_matchers[matcher_idx].subdivider = NoPattern
    /\ lexer_matchers[matcher_idx].pattern.kind = "regex"
    /\ Len(match_result.elements) = 1
    /\ Len(match_result.elements[1].text) = 2
    /\ match_result.forward_string # <<>>

RECURSIVE ExpectedSubdivision(_, _, _)
\* C5's account of subdivide, by absolute offset: from offset `from` of the
\* matched text, the text up to the next divider goes through trim_match
\* (nothing for an empty gap), then the divider is an element of its own
ExpectedSubdivision(m, matched, from) ==
    LET rest == Drop(matched, from)
        div == PatternSearch(m.subdivider, rest)
        gap == Slice(rest, 0, div.start)
        before == IF gap = <<>> THEN <<>> ELSE TrimMatch(m, gap)
    IN  IF rest = <<>> THEN <<>>
        ELSE IF ~div.found THEN TrimMatch(m, rest)
        ELSE (before \o << Element(m.subdivider.name, Slice(rest, div.start, div.end)) >>)
               \o ExpectedSubdivision(m, matched, from + div.end)

\* C5: for a matcher with a subdivider, the elements of a match are, in
\* source order, the trim_match output of each text before a divider, each
\* divider as an element under the subdivider's name, and the trim_match
\* output of the tail; an empty gap contributes nothing.
SubdivisionStep ==
    (/\ pc = "for"
     /\ matcher_idx <= Len(lexer_matchers)
     /\ lexer_matchers[matcher_idx].subdivider # NoPattern)
      => LET m == lexer_matchers[matcher_idx]
             matched == PatternMatches(m.pattern, forward_string)
         IN  IF matched.found
             THEN /\ match_result'.elements = ExpectedSubdivision(m, matched.text, 0)
                  /\ \A i \in DOMAIN match_result'.elements :
                         match_result'.elements[i].text # <<>>
             ELSE match_result'.elements = <<>>

Subdivision == [][SubdivisionStep]_vars

\* C5 witness: the function_script_terminator matcher on ";\n/\n" has
\* yielded exactly ";", "\n", "/".
SubdivisionWitness ==
    /\ raw = <<";", "\n", "/", "\n">>
    /\ lexer_matchers = <<FunctionScriptTerminator>>
    /\ match_result.elements = << Element("semicolon", <<";">>),
                                  Element("newline", <<"\n">>),
                                  Element("function_script_terminator", <<"/">>) >>
    /\ match_result.forward_string = <<"\n">>

\* C6: lex_match reaches its exit in finitely many turns because a turn that
\* does not advance the remaining input ends the loop: every turn that goes
\* back to the head of the 'main loop has shortened forward_string.
LexMatchAdvancesStep ==
    (pc = "for" /\ pc' = "lex_match") => Len(forward_string') < Len(forward_string)

LexMatchAdvances == [][LexMatchAdvancesStep]_vars

\* C7: when lex_match returns with input remaining, the element of the
\* last-resort "<unlexable>" matcher on that remaining input is appended to
\* the element buffer and lexing goes on from just past it.
UnlexableFallbackStep ==
    (pc = "lex_ret" /\ res.forward_string # <<>>) =>
        LET unlexable == Matches(LastResortLexer, res.forward_string)
        IN  /\ element_buffer' = (element_buffer \o res.elements) \o unlexable.elements
            /\ str_buff' = unlexable.forward_string
            /\ pc' = "lex"

UnlexableFallback == [][UnlexableFallbackStep]_vars

\* number of segments of kind k
CountKind(segs, k) == Cardinality({i \in DOMAIN segs : segs[i].kind = k})

\* C8: when lex returns, text that no matcher could lex is reported: there is
\* one lex error per Unlexable segment, and input that the ordinary matchers
\* left over is covered by such a segment and its error.
UnlexableSurfaced ==
    pc = "done" =>
        /\ Len(lex_errors) = CountKind(segments, "<unlexable>")
        /\ res.forward_string # <<>> => lex_errors # <<>>

\* C9: the segment list lex returns ends with an end-of-file segment, holds
\* no other one, and that segment sits at the end point of the last real
\* segment, or at (0,0) when there is none.
EndOfFileLast ==
    pc = "done" =>
        LET n == Len(segments)
            eof == segments[n]
        IN  /\ n >= 1
            /\ eof.kind = "end_of_file"
            /\ eof.raw = <<>>
            /\ \A i \in 1..(n - 1) : segments[i].kind # "end_of_file"
            /\ IF n = 1
               THEN eof.pos_marker = PositionMarker(Range(0, 0), Range(0, 0))
               ELSE LET last == segments[n - 1].pos_marker
                    IN  /\ eof.pos_marker.source_slice
                             = Range(last.source_slice.end, last.source_slice.end)
                        /\ eof.pos_marker.templated_slice
                             = Range(last.templated_slice.end, last.templated_slice.end)

\* C9 witness: lex has returned two real segments followed by the end of file,
\* which is not at the document start.
EndOfFileLastWitness ==
    /\ pc = "done"
    /\ Len(segments) = 3
    /\ segments[2].pos_marker.source_slice.end = 3
    /\ segments[3].kind = "end_of_file"

\* C10: parse on an empty token list returns Ok(None) and has neither built
\* a parse context nor called the root grammar, whatever f_name and
\* parse_statistics are.
EmptyTokensNoOp ==
    (parse_pc = "done" /\ tokens = <<>>) =>
        /\ parse_result = ParseResult("OkNone", <<>>)
        /\ ~parse_cx_built
        /\ ~root_parsed

\* C10 witness: parse has returned for an empty token list with a file name
\* and parse_statistics set.
EmptyTokensNoOpWitness ==
    /\ parse_pc = "done"
    /\ tokens = <<>>
    /\ f_name = "query.sql"
    /\ parse_statistics

\* C11: whenever parse returns Ok(Some(root)), the root grammar was called and
\* the leaves of root are the supplied tokens, each exactly once and in
\* order: a tree that drops or duplicates a token is never returned.
ParseCompleteness ==
    (parse_pc = "done" /\ parse_result.tag = "OkSome") =>
        /\ root_parsed
        /\ Len(parse_result.root) = Len(tokens)
        /\ \A i \in 1..Len(tokens) : parse_result.root[i] = tokens[i]

\* C11 witness: parse has returned Ok(Some(root)) for a list of several
\* tokens, for which the root grammar could also have dropped or duplicated
\* one.
ParseCompletenessWitness ==
    /\ parse_pc = "done"
    /\ parse_result.tag = "OkSome"
    /\ Len(tokens) >= 2
    /\ \E r \in RootParse(tokens) : r.tag = "Ok" /\ r.root # tokens

\* C12: every name passed to add by a dialect function is unbound in the
\* library at the moment of the call, so add never overwrites a binding.
AddNeverOverwritesStep ==
    (AtStmt("add") /\ dialect_pc' = dialect_pc + 1) =>
        \A i \in DOMAIN CurStmt.names : CurStmt.names[i] \notin DOMAIN dialect.library

AddNeverOverwrites == [][AddNeverOverwritesStep]_vars

\* C13: a replace_grammar(name, g) call changes the binding of name and
\* nothing else: the library binds the same names, every other name keeps
\* its binding, and the keyword sets and the lexer matcher list are unchanged.
GrammarOverrideIsolationStep ==
    (AtStmt("replace_grammar") /\ dialect_pc' = dialect_pc + 1) =>
        LET name == CurStmt.names[1]
        IN  /\ DOMAIN dialect'.library = DOMAIN dialect.library
            /\ dialect'.library[name] = CurStmt.line
            /\ \A n \in DOMAIN dialect.library :
                   n # name => dialect'.library[n] = dialect.library[n]
            /\ dialect'.sets = dialect.sets
            /\ dialect'.lexer_matchers = dialect.lexer_matchers
            /\ dialect'.bracket_sets = dialect.bracket_sets

InsertBeforeAnchorStep ==
    (AtStmt("insert_lexer_matchers") /\ dialect_pc' = dialect_pc + 1) =>
        LET old == dialect.lexer_matchers
            new == dialect'.lexer_matchers
            patch == PatchOf(CurStmt)
        IN  \E k \in DOMAIN old :
                /\ old[k].name = CurStmt.arg
                /\ Len(new) = Len(old) + Len(patch)
                /\ \A i \in 1..(k - 1) : new[i] = old[i]
                /\ \A i \in DOMAIN patch : new[k - 1 + i] = patch[i]
                /\ \A i \in k..Len(old) : new[i + Len(patch)] = old[i]

PatchInPlaceStep ==
    (AtStmt("patch_lexer_matchers") /\ dialect_pc' = dialect_pc + 1) =>
        LET old == dialect.lexer_matchers
            new == dialect'.lexer_matchers
            patch == PatchOf(CurStmt)
        IN  /\ Len(new) = Len(old)
            /\ \A i \in DOMAIN old :
                   /\ new[i].name = old[i].name
                   /\ IF \E j \in DOMAIN patch : patch[j].name = old[i].name
                      THEN new[i] \in Range_of(patch)
                      ELSE new[i] = old[i]

ExpandLastStep ==
    /\ dialect.expanded >= 1 => dialect' = dialect
    /\ (dialect_status' = "returned"
          /\ dialect_fn \in {"clickhouse_dialect", "sparksql_dialect", "sqlite::dialect"}) =>
             dialect'.expanded = 1

ExpandLast == [][ExpandLastStep]_vars

\* C16 witness: sqlite::dialect has returned a Dialect expanded once, with
\* the grammar replaced by the last statement of raw_dialect (line 686).
ExpandLastWitness ==
    /\ dialect_fn = "sqlite::dialect"
    /\ dialect_status = "returned"
    /\ dialect.expanded = 1
    /\ dialect.library["StatementSegment"] = 686

\* the texts of a sequence of elements
ElementTexts(elements) == [i \in DOMAIN elements |-> elements[i].text]

\* C17: of the elements a matcher with a trim pattern yields, only the spans
\* matched by the trim pattern carry the trim pattern's name: the catch-all
\* content, whether flushed before a trim match that reaches the end of the
\* text or left over after the loop, carries the Matcher's own name.
ElementTaggingStep ==
    (/\ pc = "for"
     /\ matcher_idx <= Len(lexer_matchers)
     /\ lexer_matchers[matcher_idx].trim_post_subdivide # NoPattern)
      => LET m == lexer_matchers[matcher_idx]
             trim == m.trim_post_subdivide
         IN  \A i \in DOMAIN match_result'.elements :
                 LET e == match_result'.elements[i]
                 IN  /\ e.name \in {m.pattern.name, m.subdivider.name, trim.name}
                     /\ e.name = trim.name =>
                            PatternMatches(trim, e.text) = SomeStr(e.text)

ElementTagging == [][ElementTaggingStep]_vars

\* C18: the texts of the elements a matcher with a trim pattern yields,
\* concatenated in order, are the text the matcher consumed, for a literal as
\* for a regex trim pattern: no text is emitted before text that preceded it.
TrimTextConservationStep ==
    (/\ pc = "for"
     /\ matcher_idx <= Len(lexer_matchers)
     /\ lexer_matchers[matcher_idx].trim_post_subdivide # NoPattern)
      => LET m == lexer_matchers[matcher_idx]
             matched == PatternMatches(m.pattern, forward_string)
         IN  matched.found =>
                 Flatten(ElementTexts(match_result'.elements)) = matched.text

TrimTextConservation == [][TrimTextConservationStep]_vars

\* C19: for a matcher with a subdivider and no trim pattern, the texts of the
\* elements of a match, concatenated in order, are the consumed prefix: the
\* text between the dividers is emitted too.
SubdivideWithoutTrimStep ==
    (/\ pc = "for"
     /\ matcher_idx <= Len(lexer_matchers)
     /\ lexer_matchers[matcher_idx].subdivider # NoPattern
     /\ lexer_matchers[matcher_idx].trim_post_subdivide = NoPattern)
      => LET m == lexer_matchers[matcher_idx]
             matched == PatternMatches(m.pattern, forward_string)
         IN  matched.found =>
                 /\ Flatten(ElementTexts(match_result'.elements)) = matched.text
                 /\ match_result'.forward_string = Drop(forward_string, Len(matched.text))

SubdivideWithoutTrim == [][SubdivideWithoutTrimStep]_vars

\* C20: in iter_segments the walk of the sliced_file for an element starts at
\* a slice index that is not below the index at which the walk for the
\* element before it finished: the index is never put back between elements.
CursorAdvancesStep ==
    (iter_pc = "element" /\ iter_pc' = "slice" /\ element_idx > 1) => tfs_idx' >= tfs_idx

CursorAdvances == [][CursorAdvancesStep]_vars

\* the segments of a list that were made from the element
SegmentsOf(segs, element) ==
    SelectSeq(segs, LAMBDA seg : seg.pos_marker.templated_slice = element.template_slice)

\* the element's templated_slice lies inside the literal slice
InsideLiteral(element, tfs) ==
    /\ tfs.slice_type = "literal"
    /\ tfs.templated_slice.start <= element.template_slice.start
    /\ element.template_slice.end <= tfs.templated_slice.end

\* C21: when iter_segments returns, every element whose templated_slice lies
\* inside one literal slice L, at whatever index, has exactly one segment: it
\* has the element's full text, the element's template_slice as templated
\* range, and that range shifted by L's source-to-templated offset as source
\* range.
LiteralSliceMapping ==
    iter_pc = "done" =>
        \A k \in DOMAIN lexed_elements :
            \A j \in DOMAIN templated_file.sliced_file :
                LET e == lexed_elements[k]
                    L == templated_file.sliced_file[j]
                    shift == L.source_slice.start - L.templated_slice.start
                IN  InsideLiteral(e, L) =>
                        SegmentsOf(result, e) =
                          << ToSegment(e,
                                       PositionMarker(Range(e.template_slice.start + shift,
                                                            e.template_slice.end + shift),
                                                      e.template_slice),
                                       Range(0, Len(e.raw))) >>

\* the element starts inside the literal slice and ends after it
StraddlesEnd(element, tfs) ==
    /\ tfs.slice_type = "literal"
    /\ tfs.templated_slice.start <= element.template_slice.start
    /\ element.template_slice.start < tfs.templated_slice.end
    /\ tfs.templated_slice.end < element.template_slice.end

\* C22: when iter_segments returns, the raw texts of the segments made from
\* a whitespace element that straddles the end of a literal slice are, in
\* order, the part up to the end of that slice and then only the rest: they
\* concatenate to the element's text, no character twice.
WhitespaceSplit ==
    iter_pc = "done" =>
        \A k \in DOMAIN lexed_elements :
            \A j \in DOMAIN templated_file.sliced_file :
                LET e == lexed_elements[k]
                    tfs == templated_file.sliced_file[j]
                    segs == SegmentsOf(result, e)
                IN  (e.matcher.name = "whitespace" /\ StraddlesEnd(e, tfs)) =>
                        /\ segs # <<>>
                        /\ segs[1].raw = Slice(e.raw, 0, tfs.templated_slice.end
                                                           - e.template_slice.start)
                        /\ Flatten(SegmentRaws(segs)) = e.raw

\* the literal slice holds the last character of the element
HoldsEnd(element, tfs) ==
    /\ tfs.slice_type = "literal"
    /\ tfs.templated_slice.start < element.template_slice.end
    /\ element.template_slice.end <= tfs.templated_slice.end

\* C23: when iter_segments returns, an element that is not whitespace and
\* straddles the end of the literal slice S it starts in has exactly one
\* segment: it has the element's full text and a source range from the
\* element's templated start shifted by the source-to-templated offset of S
\* to the element's end shifted by the offset of the literal slice that
\* holds its end.
NonWhitespaceSpanning ==
    iter_pc = "done" =>
        \A k \in DOMAIN lexed_elements :
            \A i, j \in DOMAIN templated_file.sliced_file :
                LET e == lexed_elements[k]
                    S == templated_file.sliced_file[i]
                    M == templated_file.sliced_file[j]
                    shift(tfs) == tfs.source_slice.start - tfs.templated_slice.start
                IN  (/\ e.matcher.name # "whitespace"
                     /\ StraddlesEnd(e, S)
                     /\ HoldsEnd(e, M)) =>
                        SegmentsOf(result, e) =
                          << ToSegment(e,
                                       PositionMarker(Range(e.template_slice.start + shift(S),
                                                            e.template_slice.end + shift(M)),
                                                      e.template_slice),
                                       Range(0, Len(e.raw))) >>

\* C25: when iter_segments returns normally, every lexed element has
\* contributed at least one segment to the result.
NoElementLost ==
    iter_pc = "done" =>
        \A k \in DOMAIN lexed_elements : SegmentsOf(result, lexed_elements[k]) # <<>>

\* the inner loop stands at a slice of type templated or block_start that
\* has text in the templated string
AtUnimplementedSlice ==
    /\ iter_pc = "slice"
    /\ tfs_idx < Len(templated_file.sliced_file)
    /\ LET tfs == templated_file.sliced_file[tfs_idx + 1]
       IN  /\ tfs.slice_type \in {"templated", "block_start"}
           /\ ~is_zero_slice(tfs.templated_slice)

NotImplementedAbortStep ==
    /\ AtUnimplementedSlice =>
          /\ iter_pc' = "panic"
          /\ result' = result
    /\ iter_pc = "panic" => iter_pc' = "panic"

\* C24: whenever the inner loop of an element reaches a slice of type
\* templated or block_start whose templated range is not empty, the step
\* taken there aborts iter_segments without a further segment, and an
\* aborted run never goes on to return a segment list.
NotImplementedAbort == [][NotImplementedAbortStep]_vars

\* an element after the first reached a block_start slice with text, behind
\* a literal slice, and the run aborted there
NotImplementedAbortWitness ==
    /\ iter_pc = "panic"
    /\ element_idx >= 2
    /\ tfs_idx >= 1
    /\ tfs_idx < Len(templated_file.sliced_file)
    /\ templated_file.sliced_file[tfs_idx + 1].slice_type = "block_start"
    /\ ~is_zero_slice(templated_file.sliced_file[tfs_idx + 1].templated_slice)
    /\ result # <<>>

\* C26: when sparksql_dialect or clickhouse_dialect has returned, after all
\* of its patch_lexer_matchers and insert_lexer_matchers calls, no two
\* matchers of the dialect's lexer matcher list have the same name.
LexerMatcherNamesUnique ==
    (/\ dialect_status = "returned"
     /\ dialect_fn \in {"sparksql_dialect", "clickhouse_dialect"}) =>
        \A i, j \in DOMAIN dialect.lexer_matchers :
            dialect.lexer_matchers[i].name = dialect.lexer_matchers[j].name => i = j

\* the elements of the sequence are those of the last call of
\* elements_from_raw_segments, on raw_segments
BuiltFromRawSegments ==
    /\ reflow_pc = "ready"
    /\ reflow_ops # <<>>
    /\ last_call.method \in {"from_root", "from_around_target", "replace"}

PointLike(seg) == seg.type \in {"whitespace", "newline", "indent", "dedent"}

\* C27: the elements that elements_from_raw_segments builds alternate
\* strictly between points and blocks, every block holds exactly one
\* segment, which is not whitespace, newline, indent or dedent, every point
\* holds only such segments (possibly none), and the segments of the
\* elements in order are the input list.
AlternatingElements ==
    BuiltFromRawSegments =>
        /\ \A i \in 1..(Len(reflow_elements) - 1) :
              reflow_elements[i].kind # reflow_elements[i + 1].kind
        /\ \A i \in DOMAIN reflow_elements :
              LET elem == reflow_elements[i]
              IN  IF elem.kind = "block"
                  THEN Len(elem.segments) = 1 /\ ~PointLike(elem.segments[1])
                  ELSE \A j \in DOMAIN elem.segments : PointLike(elem.segments[j])
        /\ ElementSegments(reflow_elements) = raw_segments

\* a window around a target was built whose raw segments hold two adjacent
\* blocks and whitespace: the elements hold an empty point and a filled one
AlternatingElementsWitness ==
    /\ BuiltFromRawSegments
    /\ last_call.method = "from_around_target"
    /\ \E i, j \in DOMAIN reflow_elements :
          /\ reflow_elements[i] = ReflowPoint(<<>>)
          /\ reflow_elements[j].kind = "point"
          /\ reflow_elements[j].segments # <<>>

PassMethods == {"rebreak", "reindent", "break_long_lines"}

OrderingConstraintStep ==
    /\ (/\ reflow_pc = "ready"
        /\ \/ last_call.method \in {"without", "replace"}
           \/ last_call.method = "insert" /\ last_call.arg = "before") =>
          lint_results # <<>>
    /\ (/\ Len(reflow_ops') = Len(reflow_ops) + 1
        /\ last_call'.method \in PassMethods) =>
          IF lint_results # <<>>
          THEN reflow_pc' = "panic"
          ELSE /\ reflow_pc' = "ready"
               /\ lint_results' = pass_results'

\* C28: a sequence that insert(.., "before"), without or replace returned
\* carries a lint result; rebreak, reindent and break_long_lines called on a
\* sequence that carries a lint result panic, and called on a sequence
\* without lint results they complete with the lint results of their pass.
OrderingConstraint == [][OrderingConstraintStep]_vars

\* reindent was called directly on the result of without and panicked
OrderingConstraintWitness ==
    /\ reflow_pc = "panic"
    /\ Len(reflow_ops) = 3
    /\ reflow_ops[2] = "without"
    /\ reflow_ops[3] = "reindent"

\* C29: from_around_target does not panic, and its window satisfies
\* 0 <= pre_idx < post_idx <= number of raw segments of the root and holds
\* all raw segments of the target, for every target in the root and every
\* value of sides.
WindowInRange ==
    last_call.method = "from_around_target" =>
        /\ reflow_pc = "ready"
        /\ 0 <= pre_idx
        /\ pre_idx < post_idx
        /\ post_idx <= Len(root_raws)
        /\ \A i \in DOMAIN last_call.target :
              \E j \in (pre_idx + 1)..post_idx : root_raws[j] = last_call.target[i]

\* the segment is a type cast: a CAST function, a CONVERT function or a ::
\* shorthand cast
IsTypeCast(segment) ==
    \/ segment.kind = "cast_expression"
    \/ /\ segment.kind = "function"
       /\ segment.function_name.found
       /\ \/ eq_ignore_ascii_case(segment.function_name.text, <<"c", "a", "s", "t">>)
          \/ eq_ignore_ascii_case(segment.function_name.text,
                                  <<"c", "o", "n", "v", "e", "r", "t">>)

ReportsOnlyTypeCastsStep ==
    cv_visits' = cv_visits + 1 =>
        /\ cv_results' # <<>> =>
              /\ IsTypeCast(cv_segment')
              /\ CurrentTypeCastingStyle(cv_segment') #
                    (IF preferred_type_casting_style = "consistent"
                     THEN prior_type_casting_style
                     ELSE preferred_type_casting_style)
        /\ ~IsTypeCast(cv_segment') =>
              /\ cv_results' = <<>>
              /\ prior_type_casting_style' = prior_type_casting_style

\* C30: eval returns a LintResult only for a segment that is a type cast
\* whose style differs from the reference style (the style kept in the
\* context in consistent mode, the preferred style otherwise); for a
\* function call that is neither CAST nor CONVERT it returns no LintResult
\* and leaves the reference style as it was.
ReportsOnlyTypeCasts == [][ReportsOnlyTypeCastsStep]_vars

====
